---- MODULE Spec2Model ----
(***************************************************************************)
(* A model of neurust: the dense n-dimensional Array with broadcasting     *)
(* arithmetic (src/src/linalg) and the computational graph built on it     *)
(* (src/src/graph, src/src/tensor): memoised forward evaluation and the    *)
(* stack-driven reverse accumulation of GraphOp::grad.                     *)
(*                                                                         *)
(* Element type.  T: Numeric is a float (f32/f64).  The model computes     *)
(* over exact rationals <<numerator, denominator>> in lowest terms with a  *)
(* positive denominator, so that 1/y and -x/y^2 are represented exactly    *)
(* and equality of results is meaningful.  Rounding is not modelled.       *)
(* <<0, 0>> stands for the non-finite results of a division by zero; the   *)
(* inputs drawn below keep every divisor non-zero.                         *)
(*                                                                         *)
(* Indices.  Rust vectors are 0-based, TLA+ sequences 1-based: a source    *)
(* index i is the model index i + 1; offsets into data buffers are kept    *)
(* 0-based and shifted where the buffer is read.                           *)
(***************************************************************************)
EXTENDS Integers, Sequences, FiniteSets, TLC

\* ------------------------------------------------------------------------
\* Bounds of the model
\* ------------------------------------------------------------------------

\* Largest number of graph nodes a program of Spec builds.
MaxNodes == 3

\* Largest number of graph nodes a program of SpecShapes builds.
MaxShapeNodes == 2

\* Largest number of graph nodes a program of SpecGrad builds.
MaxGradNodes == 4

\* ------------------------------------------------------------------------
\* T: Numeric, over exact rationals
\* ------------------------------------------------------------------------

Abs(x) == IF x < 0 THEN -x ELSE x

RECURSIVE Gcd(_, _)
Gcd(a, b) == IF b = 0 THEN a ELSE Gcd(b, a % b)

NaN == <<0, 0>>

Rat(n, d) ==
    IF d = 0 THEN NaN
    ELSE LET g == Gcd(Abs(n), Abs(d))
             s == IF d < 0 THEN -1 ELSE 1
         IN  <<(s * n) \div g, (s * d) \div g>>

Num(n) == <<n, 1>>
T_zero == Num(0)
T_one == Num(1)

IsFinite(a) == a[2] # 0

T_add(a, b) == IF IsFinite(a) /\ IsFinite(b) THEN Rat(a[1] * b[2] + b[1] * a[2], a[2] * b[2]) ELSE NaN
T_sub(a, b) == IF IsFinite(a) /\ IsFinite(b) THEN Rat(a[1] * b[2] - b[1] * a[2], a[2] * b[2]) ELSE NaN
T_mul(a, b) == IF IsFinite(a) /\ IsFinite(b) THEN Rat(a[1] * b[1], a[2] * b[2]) ELSE NaN
T_div(a, b) == IF IsFinite(a) /\ IsFinite(b) THEN Rat(a[1] * b[2], a[2] * b[1]) ELSE NaN
T_neg(a) == IF IsFinite(a) THEN <<-a[1], a[2]>> ELSE NaN

\* x <= y on finite values (denominators are positive).
T_le(a, b) == a[1] * b[2] <= b[1] * a[2]

\* Float::max, Float::min: a NaN operand is ignored.
T_max(a, b) == IF ~IsFinite(a) THEN b ELSE IF ~IsFinite(b) THEN a ELSE IF T_le(a, b) THEN b ELSE a
T_min(a, b) == IF ~IsFinite(a) THEN b ELSE IF ~IsFinite(b) THEN a ELSE IF T_le(a, b) THEN a ELSE b

\* The closures |x, y| x + y, x - y, x * y, x / y handed to the elementwise
\* kernels and |x, y| x.max(y), x.min(y) handed to reduce, named by a tag.
ApplyFn(f, x, y) ==
    CASE f = "add" -> T_add(x, y)
      [] f = "sub" -> T_sub(x, y)
      [] f = "mul" -> T_mul(x, y)
      [] f = "div" -> T_div(x, y)
      [] f = "max" -> T_max(x, y)
      [] f = "min" -> T_min(x, y)

\* ------------------------------------------------------------------------
\* Array: shape utilities
\* ------------------------------------------------------------------------

RECURSIVE Product(_)
Product(s) == IF s = <<>> THEN 1 ELSE Head(s) * Product(Tail(s))

Max(a, b) == IF a > b THEN a ELSE b
Min(a, b) == IF a < b THEN a ELSE b

\* let x = e; ...: F applied to the value of e, which is computed once.
Bind(e, F(_)) == F(e)

\* shape[..n] and shape[n..] of the source (n is 0-based, exclusive/inclusive).
Prefix(s, n) == SubSeq(s, 1, n)
Suffix(s, n) == SubSeq(s, n + 1, Len(s))

\* A panic (panic!, expect, unwrap, an out-of-range slice) ends the whole call.
\* An operation that panics yields PANIC instead of an array; no Array has a
\* zero in its shape, so PANIC is never confused with one.
PANIC == [shape |-> <<0>>, data |-> <<>>]
IsPanic(a) == a = PANIC

\* TRUE iff the check passes (the source panics otherwise).
check_shape_positive(shape) == \A i \in 1..Len(shape) : shape[i] # 0

\* TRUE iff the check passes (the source panics otherwise).
check_shapes_broadcast(shape1, shape2) ==
    LET swap == Len(shape1) > Len(shape2)
        smaller_shape == IF swap THEN shape2 ELSE shape1
        bigger_shape == IF swap THEN shape1 ELSE shape2
        shapes_len_diff == Len(bigger_shape) - Len(smaller_shape)
    IN  \A i \in 1..Len(smaller_shape) :
            ~(  /\ smaller_shape[i] # bigger_shape[i + shapes_len_diff]
                /\ smaller_shape[i] # 1
                /\ bigger_shape[i + shapes_len_diff] # 1)

\* Only evaluated where check_shapes_broadcast holds.
get_shape_after_broadcast(shape1, shape2) ==
    LET swap == Len(shape1) > Len(shape2)
        smaller_shape == IF swap THEN shape2 ELSE shape1
        bigger_shape == IF swap THEN shape1 ELSE shape2
        shapes_lens_diff == Len(bigger_shape) - Len(smaller_shape)
    IN  [k \in 1..Len(bigger_shape) |->
            IF k > shapes_lens_diff
            THEN Max(smaller_shape[k - shapes_lens_diff], bigger_shape[k])
            ELSE bigger_shape[k]]

\* ------------------------------------------------------------------------
\* Array: construction
\* ------------------------------------------------------------------------

Array_new(init_value, shape) ==
    IF ~check_shape_positive(shape) THEN PANIC
    ELSE [shape |-> shape, data |-> [i \in 1..Product(shape) |-> init_value]]

\* A from_vec that takes a buffer of any length.
Array_from_vec_unchecked(data, shape) ==
    IF ~check_shape_positive(shape) THEN PANIC
    ELSE [shape |-> shape, data |-> data]

Array_from_vec(data, shape) ==
    IF ~check_shape_positive(shape) THEN PANIC
    ELSE IF Len(data) # Product(shape) THEN PANIC
    ELSE [shape |-> shape, data |-> data]

get_shape(a) == a.shape

Array_clone(a) == [shape |-> a.shape, data |-> a.data]

\* ------------------------------------------------------------------------
\* BroadcastIterator
\* ------------------------------------------------------------------------

get_padded_broadcast_shapes(shape1, shape2, trailing_dims) ==
    LET shape1_trunc == Prefix(shape1, Len(shape1) - trailing_dims)
        shape2_trunc == Prefix(shape2, Len(shape2) - trailing_dims)
    IN  IF Len(shape1) = Len(shape2) THEN <<shape1_trunc, shape2_trunc>>
        ELSE IF Len(shape1) > Len(shape2)
        THEN <<shape1_trunc, [i \in 1..(Len(shape1) - Len(shape2)) |-> 1] \o shape2_trunc>>
        ELSE <<[i \in 1..(Len(shape2) - Len(shape1)) |-> 1] \o shape1_trunc, shape2_trunc>>

\* A slice length that ignores the trailing dimensions.
get_slice_len_one(shape, trailing_dims) == 1

get_slice_len(shape, trailing_dims) ==
    IF trailing_dims = 0 THEN 1
    ELSE Product(Suffix(shape, Len(shape) - trailing_dims))

NoIterator == [panicked |-> TRUE]

\* The iterator's fields but for the two array references, which the callers
\* pass along.  shape[..len - trailing_dims] underflows (and panics) when
\* trailing_dims exceeds that array's rank.
BroadcastIterator_new(shape1, shape2, trailing_dims) ==
    LET max_shape_len == Max(Len(shape1), Len(shape2)) IN
    IF max_shape_len < trailing_dims THEN NoIterator
    ELSE IF trailing_dims > Len(shape1) \/ trailing_dims > Len(shape2) THEN NoIterator
    ELSE IF ~check_shapes_broadcast(Prefix(shape1, Len(shape1) - trailing_dims),
                                    Prefix(shape2, Len(shape2) - trailing_dims))
    THEN NoIterator
    ELSE Bind(get_padded_broadcast_shapes(shape1, shape2, trailing_dims), LAMBDA padded :
         [panicked |-> FALSE,
          slice1_len |-> get_slice_len(shape1, trailing_dims),
          slice2_len |-> get_slice_len(shape2, trailing_dims),
          broadcast_shape1 |-> padded[1],
          broadcast_shape2 |-> padded[2],
          broadcast_result_shape |->
              [i \in 1..(max_shape_len - trailing_dims) |-> Max(padded[1][i], padded[2][i])],
          current_index |-> [i \in 1..(max_shape_len - trailing_dims) |-> 0],
          done |-> FALSE])

\* The for-loop of increment_broadcast_shape_iterator, i from len-1 down to 0
\* (here from Len down to 1).
RECURSIVE increment_loop(_, _, _, _)
increment_loop(current_index, result_shape, i, done) ==
    IF i = 0 THEN [current_index |-> current_index, done |-> done]
    ELSE LET d == done \/ (i = 1 /\ current_index[1] = result_shape[1])
             ci == IF current_index[i] = result_shape[i] /\ i # 1
                   THEN [current_index EXCEPT ![i] = 0, ![i - 1] = @ + 1]
                   ELSE current_index
         IN  increment_loop(ci, result_shape, i - 1, d)

increment_broadcast_shape_iterator(it) ==
    LET n == Len(it.current_index)
        r == increment_loop([it.current_index EXCEPT ![n] = @ + 1],
                            it.broadcast_result_shape, n, it.done)
    IN  [it EXCEPT !.current_index = r.current_index, !.done = r.done]

\* The for-loop of compute_slice_index: returns the 0-based offset.
RECURSIVE slice_index_loop(_, _, _, _, _)
slice_index_loop(current_index, shape, i, idx, prod) ==
    IF i = 0 THEN idx
    ELSE slice_index_loop(current_index, shape, i - 1,
                          IF current_index[i] < shape[i] THEN idx + current_index[i] * prod ELSE idx,
                          prod * shape[i])

\* A slice index that stays on the operand's first slice.
compute_slice_index_first(it, shape, slice_len) == 0

compute_slice_index(it, shape, slice_len) ==
    slice_index_loop(it.current_index, shape, Len(shape), 0, slice_len)

\* &data[from .. from + len]: [ok, s]; ok is FALSE when the range leaves the
\* buffer (the source panics).
SliceOf(data, from, len) ==
    IF from + len > Len(data) THEN [s |-> <<>>, ok |-> FALSE]
    ELSE [s |-> SubSeq(data, from + 1, from + len), ok |-> TRUE]

\* Iterator::next: [some, slice1, slice2, it], the iterator after the call
\* included.
BroadcastIterator_next(it, array1, array2) ==
    IF it.done
    THEN [it |-> it, some |-> FALSE, slice1 |-> [s |-> <<>>, ok |-> TRUE],
          slice2 |-> [s |-> <<>>, ok |-> TRUE]]
    ELSE IF it.current_index = <<>>
    THEN [it |-> [it EXCEPT !.done = TRUE],
          some |-> TRUE, slice1 |-> [s |-> array1.data, ok |-> TRUE],
          slice2 |-> [s |-> array2.data, ok |-> TRUE]]
    ELSE LET slice1_index == compute_slice_index(it, it.broadcast_shape1, it.slice1_len)
             slice2_index == compute_slice_index(it, it.broadcast_shape2, it.slice2_len)
         IN  [it |-> increment_broadcast_shape_iterator(it),
              some |-> TRUE,
              slice1 |-> SliceOf(array1.data, slice1_index, it.slice1_len),
              slice2 |-> SliceOf(array2.data, slice2_index, it.slice2_len)]

\* ------------------------------------------------------------------------
\* Array: elementwise kernels
\* ------------------------------------------------------------------------

\* The number of trailing dimensions on which the two shapes are literally
\* equal (the zip over the reversed shapes, stopped at the first difference).
RECURSIVE count_trailing_dims(_, _, _)
count_trailing_dims(shape1, shape2, k) ==
    IF k < Len(shape1) /\ k < Len(shape2)
       /\ shape1[Len(shape1) - k] = shape2[Len(shape2) - k]
    THEN count_trailing_dims(shape1, shape2, k + 1)
    ELSE k

\* The enumerate() loop over the iterator: pair i writes f over the zipped
\* slices into buff[slice_len*i .. slice_len*(i+1)].  [ok, data].
RECURSIVE elementwise_loop(_, _, _, _, _, _, _)
elementwise_loop(it, self, other, f, slice_len, i, buff) ==
    Bind(BroadcastIterator_next(it, self, other), LAMBDA nx :
    IF ~nx.some THEN [data |-> buff, ok |-> TRUE]
    ELSE IF ~nx.slice1.ok \/ ~nx.slice2.ok THEN [data |-> <<>>, ok |-> FALSE]
    ELSE IF slice_len * (i + 1) > Len(buff) THEN [data |-> <<>>, ok |-> FALSE]
    ELSE Bind(Min(Len(nx.slice1.s), Len(nx.slice2.s)), LAMBDA n :
         IF n > slice_len THEN [data |-> <<>>, ok |-> FALSE]
         ELSE elementwise_loop(nx.it, self, other, f, slice_len, i + 1,
                  [k \in 1..Len(buff) |->
                      IF k > slice_len * i /\ k <= slice_len * i + n
                      THEN ApplyFn(f, nx.slice1.s[k - slice_len * i], nx.slice2.s[k - slice_len * i])
                      ELSE buff[k]])))

\* [ok, data]: the buffer after the call.
compute_elementwise_with_other_array_on_mem_buffer(self, other, f, shape, buff) ==
    Bind(count_trailing_dims(self.shape, other.shape, 0), LAMBDA trailing_dims :
    Bind(Product(Suffix(shape, Len(shape) - trailing_dims)), LAMBDA slice_len :
    Bind(BroadcastIterator_new(self.shape, other.shape, trailing_dims), LAMBDA it :
        IF it.panicked THEN [data |-> <<>>, ok |-> FALSE]
        ELSE elementwise_loop(it, self, other, f, slice_len, 0, buff))))

\* A panic of an operand's own computation has already ended the call.
compute_elementwise_with_other_array(self, other, f) ==
    IF IsPanic(self) \/ IsPanic(other) THEN PANIC
    ELSE IF ~check_shapes_broadcast(self.shape, other.shape) THEN PANIC
    ELSE Bind(get_shape_after_broadcast(self.shape, other.shape), LAMBDA shape :
         Bind(compute_elementwise_with_other_array_on_mem_buffer(
                  self, other, f, shape, [i \in 1..Product(shape) |-> T_zero]), LAMBDA r :
             IF r.ok THEN [shape |-> shape, data |-> r.data] ELSE PANIC))

\* self.data and self.shape are replaced by the broadcast result.
assign_compute_elementwise_with_other_array(self, other, f) ==
    compute_elementwise_with_other_array(self, other, f)

compute_elementwise_with_scalar(self, other, f) ==
    IF IsPanic(self) THEN PANIC
    ELSE [shape |-> self.shape,
          data |-> [i \in 1..Len(self.data) |-> ApplyFn(f, self.data[i], other)]]

Array_add(self, other) == compute_elementwise_with_other_array(self, other, "add")
Array_sub(self, other) == compute_elementwise_with_other_array(self, other, "sub")
Array_mul(self, other) == compute_elementwise_with_other_array(self, other, "mul")
Array_div(self, other) == compute_elementwise_with_other_array(self, other, "div")
Array_add_assign(self, other) == assign_compute_elementwise_with_other_array(self, other, "add")
Array_add_scalar(self, other) == compute_elementwise_with_scalar(self, other, "add")
Array_sub_scalar(self, other) == compute_elementwise_with_scalar(self, other, "sub")
Array_mul_scalar(self, other) == compute_elementwise_with_scalar(self, other, "mul")
Array_div_scalar(self, other) == compute_elementwise_with_scalar(self, other, "div")

\* self.data[i] = f(self.data[i], other); the shape is left alone.
assign_compute_elementwise_with_scalar(self, other, f) ==
    IF IsPanic(self) THEN PANIC
    ELSE [self EXCEPT !.data = [i \in 1..Len(self.data) |-> ApplyFn(f, self.data[i], other)]]

\* map(|x| f(x, c)): the closure is a tagged function with its second
\* argument fixed.
Array_map(self, f, c) ==
    IF IsPanic(self) THEN PANIC
    ELSE [shape |-> self.shape,
          data |-> [i \in 1..Len(self.data) |-> ApplyFn(f, self.data[i], c)]]

\* map_assign(|x| f(x, c))
map_assign(self, f, c) ==
    IF IsPanic(self) THEN PANIC
    ELSE [self EXCEPT !.data = [i \in 1..Len(self.data) |-> ApplyFn(f, self.data[i], c)]]

\* map(|x| -x)
Array_neg(self) ==
    IF IsPanic(self) THEN PANIC
    ELSE [shape |-> self.shape, data |-> [i \in 1..Len(self.data) |-> T_neg(self.data[i])]]

\* TRUE iff the check passes (the source panics otherwise); index is 0-based.
check_index(self, index) ==
    /\ Len(index) = Len(self.shape)
    /\ \A i \in 1..Len(self.shape) : index[i] < self.shape[i]

\* The for-loop of compute_data_index, i from len-1 down to 0 (here from Len
\* down to 1): returns the 0-based offset.
RECURSIVE data_index_loop(_, _, _, _, _)
data_index_loop(shape, index, i, idx, prod) ==
    IF i = 0 THEN idx
    ELSE data_index_loop(shape, index, i - 1, idx + index[i] * prod, prod * shape[i])

compute_data_index(self, index) == data_index_loop(self.shape, index, Len(self.shape), 0, 1)

\* self[index] = new_value
index_mut(self, index, new_value) ==
    IF IsPanic(self) THEN PANIC
    ELSE IF ~check_index(self, index) THEN PANIC
    ELSE Bind(compute_data_index(self, index), LAMBDA idx :
         IF idx >= Len(self.data) THEN PANIC
         ELSE [self EXCEPT !.data[idx + 1] = new_value])

\* ------------------------------------------------------------------------
\* Array: matrix product and transposition
\* ------------------------------------------------------------------------

\* TRUE iff the check passes (the source panics otherwise).  With a rank
\* below 2 the slice shape[..len - 2] underflows, which panics as well.
check_shapes_broadcast_matmul(arr1_shape, arr2_shape) ==
    /\ Len(arr1_shape) >= 2
    /\ Len(arr2_shape) >= 2
    /\ check_shapes_broadcast(Prefix(arr1_shape, Len(arr1_shape) - 2),
                              Prefix(arr2_shape, Len(arr2_shape) - 2))
    /\ arr1_shape[Len(arr1_shape)] = arr2_shape[Len(arr2_shape) - 1]

\* Only evaluated where check_shapes_broadcast_matmul holds.
get_shape_after_broadcast_matmul(shape1, shape2) ==
    get_shape_after_broadcast(Prefix(shape1, Len(shape1) - 2), Prefix(shape2, Len(shape2) - 2))
        \o <<shape1[Len(shape1) - 1], shape2[Len(shape2)]>>

\* TRUE iff the check passes (the source panics otherwise).
check_matrix_product_shapes(n_rows1, n_cols1, n_rows2, n_cols2, output_len) ==
    /\ n_cols1 = n_rows2
    /\ output_len = n_cols2 * n_rows1

\* for k in 0..n_cols1 { sum = sum + data1[i * n_cols1 + k] * data2[k * n_cols2 + j] }
RECURSIVE matmul_sum_loop(_, _, _, _, _, _, _, _)
matmul_sum_loop(data1, n_cols1, data2, n_cols2, i, j, k, sum) ==
    IF k >= n_cols1 THEN sum
    ELSE matmul_sum_loop(data1, n_cols1, data2, n_cols2, i, j, k + 1,
            T_add(sum, T_mul(data1[i * n_cols1 + k + 1], data2[k * n_cols2 + j + 1])))

\* A product whose sums leave out the term k = 0.
general_matmul_2d_matrix_slices_skip_first(data1, n_rows1, n_cols1, data2, n_cols2) ==
    [q \in 1..(n_rows1 * n_cols2) |->
        matmul_sum_loop(data1, n_cols1, data2, n_cols2,
                        (q - 1) \div n_cols2, (q - 1) % n_cols2, 1, T_zero)]

\* output_buffer[i * n_cols2 + j] = sum, for i in 0..n_rows1 and j in 0..n_cols2
general_matmul_2d_matrix_slices(data1, n_rows1, n_cols1, data2, n_cols2) ==
    [q \in 1..(n_rows1 * n_cols2) |->
        matmul_sum_loop(data1, n_cols1, data2, n_cols2,
                        (q - 1) \div n_cols2, (q - 1) % n_cols2, 0, T_zero)]

\* [ok, data]: the output slice after the call.  The gemm calls taken for
\* f32 and f64 add the same product onto the zeroed slice.
matmul_2d_matrix_slices(data1, n_rows1, n_cols1, data2, n_rows2, n_cols2, output_len) ==
    IF ~check_matrix_product_shapes(n_rows1, n_cols1, n_rows2, n_cols2, output_len)
    THEN [data |-> <<>>, ok |-> FALSE]
    ELSE [data |-> general_matmul_2d_matrix_slices(data1, n_rows1, n_cols1, data2, n_cols2),
          ok |-> TRUE]

\* The enumerate() loop of matmul over the iterator: pair i writes the
\* product of the two slices into data[slice_len_output*i ..
\* slice_len_output*(i+1)].  [ok, data].
RECURSIVE matmul_loop(_, _, _, _, _, _, _)
matmul_loop(it, self, other, matrix1_shape, matrix2_shape, i, data) ==
    Bind(BroadcastIterator_next(it, self, other), LAMBDA nx :
    IF ~nx.some THEN [data |-> data, ok |-> TRUE]
    ELSE IF ~nx.slice1.ok \/ ~nx.slice2.ok THEN [data |-> <<>>, ok |-> FALSE]
    ELSE Bind(matrix1_shape[1] * matrix2_shape[2], LAMBDA slice_len_output :
         IF (i + 1) * slice_len_output > Len(data) THEN [data |-> <<>>, ok |-> FALSE]
         ELSE Bind(matmul_2d_matrix_slices(nx.slice1.s, matrix1_shape[1], matrix1_shape[2],
                                           nx.slice2.s, matrix2_shape[1], matrix2_shape[2],
                                           slice_len_output), LAMBDA r :
              IF ~r.ok THEN r
              ELSE matmul_loop(nx.it, self, other, matrix1_shape, matrix2_shape, i + 1,
                       [k \in 1..Len(data) |->
                           IF k > slice_len_output * i /\ k <= slice_len_output * (i + 1)
                           THEN r.data[k - slice_len_output * i]
                           ELSE data[k]]))))

Array_matmul(self, other) ==
    IF IsPanic(self) \/ IsPanic(other) THEN PANIC
    ELSE IF ~check_shapes_broadcast_matmul(self.shape, other.shape) THEN PANIC
    ELSE Bind(get_shape_after_broadcast_matmul(self.shape, other.shape), LAMBDA new_shape :
         Bind(BroadcastIterator_new(self.shape, other.shape, 2), LAMBDA it :
         IF it.panicked THEN PANIC
         ELSE Bind(matmul_loop(it, self, other,
                               Suffix(self.shape, Len(self.shape) - 2),
                               Suffix(other.shape, Len(other.shape) - 2),
                               0, [k \in 1..Product(new_shape) |-> T_zero]), LAMBDA r :
              IF r.ok THEN [shape |-> new_shape, data |-> r.data] ELSE PANIC)))

\* Only evaluated on a shape of two dimensions or more (the source panics
\* otherwise).
get_transposed_shape(self) ==
    [self.shape EXCEPT ![Len(self.shape) - 1] = self.shape[Len(self.shape)],
                       ![Len(self.shape)] = self.shape[Len(self.shape) - 1]]

\* A transposition that copies the slice as it is.
transpose_2d_matrix_slices_copy(data, n_rows, n_cols, output_len) ==
    IF output_len # n_cols * n_rows \/ Len(data) # n_rows * n_cols
    THEN [data |-> <<>>, ok |-> FALSE]
    ELSE [data |-> data, ok |-> TRUE]

\* [ok, data]: output_buffer[j * n_rows + i] = data[i * n_cols + j]
transpose_2d_matrix_slices(data, n_rows, n_cols, output_len) ==
    IF output_len # n_cols * n_rows \/ Len(data) # n_rows * n_cols
    THEN [data |-> <<>>, ok |-> FALSE]
    ELSE [data |-> [q \in 1..output_len |->
                       data[((q - 1) % n_rows) * n_cols + ((q - 1) \div n_rows) + 1]],
          ok |-> TRUE]

\* for i in 0..num_slices of transpose_on_mem_buffer.  [ok, data]: the part of
\* the buffer written so far.
RECURSIVE transpose_loop(_, _, _, _, _)
transpose_loop(self, slice_len, num_slices, i, output_buffer) ==
    IF i >= num_slices THEN [data |-> output_buffer, ok |-> TRUE]
    ELSE Bind(SliceOf(self.data, i * slice_len, slice_len), LAMBDA slice :
         IF ~slice.ok THEN [data |-> <<>>, ok |-> FALSE]
         ELSE Bind(transpose_2d_matrix_slices(slice.s, self.shape[Len(self.shape) - 1],
                                              self.shape[Len(self.shape)], slice_len), LAMBDA r :
              IF ~r.ok THEN r
              ELSE transpose_loop(self, slice_len, num_slices, i + 1, output_buffer \o r.data)))

\* [ok, data]: the buffer of buffer_len zeros after the call.  The reads of
\* shape[len - 2] panic on a rank below 2.
transpose_on_mem_buffer(self, buffer_len) ==
    IF Len(self.shape) < 2 THEN [data |-> <<>>, ok |-> FALSE]
    ELSE Bind(self.shape[Len(self.shape) - 1] * self.shape[Len(self.shape)], LAMBDA slice_len :
         Bind(transpose_loop(self, slice_len, buffer_len \div slice_len, 0, <<>>), LAMBDA r :
         IF ~r.ok THEN r
         ELSE [data |-> r.data \o [k \in 1..(buffer_len - Len(r.data)) |-> T_zero],
               ok |-> TRUE]))

\* A transpose that hands back an array of rank below 2 as it is.
Array_transpose_any_rank(self) ==
    IF IsPanic(self) THEN PANIC
    ELSE IF Len(self.shape) < 2 THEN self
    ELSE Bind(transpose_on_mem_buffer(self, Product(self.shape)), LAMBDA r :
         IF r.ok THEN [shape |-> get_transposed_shape(self), data |-> r.data] ELSE PANIC)

Array_transpose(self) ==
    IF IsPanic(self) THEN PANIC
    ELSE IF Len(self.shape) < 2 THEN PANIC
    ELSE Bind(transpose_on_mem_buffer(self, Product(self.shape)), LAMBDA r :
         IF r.ok THEN [shape |-> get_transposed_shape(self), data |-> r.data] ELSE PANIC)

\* The buffer is filled before the shape is computed; both panic on a rank
\* below 2.
transpose_assign(self) ==
    IF IsPanic(self) THEN PANIC
    ELSE Bind(transpose_on_mem_buffer(self, Product(self.shape)), LAMBDA r :
         IF ~r.ok THEN PANIC
         ELSE IF Len(self.shape) < 2 THEN PANIC
         ELSE [shape |-> get_transposed_shape(self), data |-> r.data])

\* ------------------------------------------------------------------------
\* linalg::reduce
\* ------------------------------------------------------------------------

\* axis: Option<usize> is the 0-based dimension, or NoAxis for None.
NoAxis == -1

\* TRUE iff the check passes (the source panics otherwise).
check_reduce_axis(array, axis) == axis = NoAxis \/ axis < Len(array.shape)

\* A result shape that keeps the reduced dimension whatever keep_dims says.
get_shape_after_reduce_keep_always(array, axis, keep_dims) ==
    IF axis # NoAxis
    THEN [get_shape(array) EXCEPT ![axis + 1] = 1]
    ELSE IF keep_dims
         THEN [i \in 1..Len(get_shape(array)) |-> 1]
         ELSE <<1>>

\* Only evaluated where check_reduce_axis holds.
get_shape_after_reduce(array, axis, keep_dims) ==
    IF axis # NoAxis
    THEN IF keep_dims
         THEN [get_shape(array) EXCEPT ![axis + 1] = 1]
         ELSE Prefix(get_shape(array), axis) \o Suffix(get_shape(array), axis + 1)
    ELSE IF keep_dims
         THEN [i \in 1..Len(get_shape(array)) |-> 1]
         ELSE <<1>>

\* array.data.iter().fold(acc, |acc, x| reducer(acc, *x))
RECURSIVE fold(_, _, _)
fold(data, acc, reducer) ==
    IF data = <<>> THEN acc
    ELSE fold(Tail(data), ApplyFn(reducer, acc, Head(data)), reducer)

\* for j in 1..dim_len of reduce: folds the elements of one output position.
RECURSIVE reduce_dim_loop(_, _, _, _, _, _)
reduce_dim_loop(array, reducer, p, base, j, output_elem) ==
    IF j >= p.dim_len THEN output_elem
    ELSE reduce_dim_loop(array, reducer, p, base, j + 1,
            ApplyFn(reducer, output_elem, array.data[base + p.axis_len * j + 1]))

\* for output_elem in new_data.iter_mut() of reduce; c holds processed_elems,
\* total_slide and current_row.
RECURSIVE reduce_output_loop(_, _, _, _, _, _)
reduce_output_loop(array, reducer, p, remaining, c, new_data) ==
    IF remaining = 0 THEN new_data
    ELSE Bind(c.total_slide + c.current_row, LAMBDA base :
         Bind(c.processed_elems + p.dim_len, LAMBDA processed_elems :
            reduce_output_loop(array, reducer, p, remaining - 1,
                IF processed_elems % p.single_slide = 0
                THEN [total_slide |-> c.total_slide + p.single_slide,
                      current_row |-> 0,
                      processed_elems |-> processed_elems]
                ELSE [total_slide |-> c.total_slide,
                      current_row |-> c.current_row + 1,
                      processed_elems |-> processed_elems],
                Append(new_data,
                       reduce_dim_loop(array, reducer, p, base, 1, array.data[base + 1])))))

reduce(array, reducer, axis, keep_dims) ==
    IF IsPanic(array) THEN PANIC
    ELSE IF ~check_reduce_axis(array, axis) THEN PANIC
    ELSE Bind(get_shape_after_reduce(array, axis, keep_dims), LAMBDA new_shape :
         IF axis # NoAxis
         THEN [shape |-> new_shape,
               data |-> reduce_output_loop(array, reducer,
                            [dim_len |-> array.shape[axis + 1],
                             axis_len |-> Product(Suffix(array.shape, axis + 1)),
                             single_slide |-> Product(Suffix(array.shape, axis))],
                            Product(new_shape),
                            [total_slide |-> 0, current_row |-> 0, processed_elems |-> 0],
                            <<>>)]
         ELSE [shape |-> new_shape,
               data |-> [i \in 1..Product(new_shape) |->
                            IF i = 1 THEN fold(array.data, T_zero, reducer) ELSE T_zero]])

reduce_sum(array, axis, keep_dims) == reduce(array, "add", axis, keep_dims)
reduce_prod(array, axis, keep_dims) == reduce(array, "mul", axis, keep_dims)
reduce_max(array, axis, keep_dims) == reduce(array, "max", axis, keep_dims)
reduce_min(array, axis, keep_dims) == reduce(array, "min", axis, keep_dims)

\* sum.div_assign_scalar(count)
div_assign_scalar(self, other) == assign_compute_elementwise_with_scalar(self, other, "div")

reduce_mean(array, axis, keep_dims) ==
    Bind(reduce_sum(array, axis, keep_dims), LAMBDA sum :
    IF IsPanic(sum) THEN PANIC
    ELSE div_assign_scalar(sum,
            Num(IF axis # NoAxis THEN array.shape[axis + 1] ELSE Len(array.data))))

\* ------------------------------------------------------------------------
\* State
\* ------------------------------------------------------------------------

VARIABLES
    nodes,            \* the graph: node k is nodes[k]; inputs are earlier nodes
    varData,          \* varData[k]: the Rc<RefCell<Array>> of Variable node k
    pc,               \* "idle" | "loop" (inside grad's while-let) | "done"
    root,             \* grad's self (0 when no grad call is running)
    target,           \* grad's node argument
    feed_dict,        \* the feed_dict argument of the running call
    stack,            \* grad's work stack of <<current_node, current_parrent>>
    accumm_grad_map,  \* grad's HashMap<usize, Array>
    compute_cache,    \* the call's HashMap<usize, Array>
    compute_calls,    \* history: compute() invocations per node in this call
    accum_calls,      \* history: compute_accum_grad invocations in this call
    ret,              \* the finished call and what it returned
    iter,             \* the live BroadcastIterator (NoIterator when there is none)
    yielded,          \* history: the pairs iter.next() has returned so far
    iter_trailing_dims \* the trailing_dims argument iter was built with

vars == <<nodes, varData, pc, root, target, feed_dict, stack, accumm_grad_map,
          compute_cache, compute_calls, accum_calls, ret,
          iter, yielded, iter_trailing_dims>>

\* Option::None, and the absent key of a HashMap<usize, Array>.  No Array has
\* an empty data buffer.
None == [shape |-> <<>>, data |-> <<>>]

\* A node's address (ref_as_usize) is its index in nodes; the WrapperOp that
\* grad allocates for the call has the address WrapperKey.
WrapperKey == 0
Keys == 0..(IF MaxGradNodes > MaxNodes THEN MaxGradNodes ELSE MaxNodes)

NodeIds == 1..Len(nodes)

EmptyMap == [k \in Keys |-> None]
NoCalls == [k \in Keys |-> 0]

\* The per-call evaluation context threaded through value/compute: the
\* compute cache and the history of compute() invocations.
NewContext == [cache |-> EmptyMap, calls |-> NoCalls]

\* feed_dict: Option<&HashMap<String, &Array>>
NoFeed == [present |-> FALSE, entries |-> <<>>]
FeedOf(entries) == [present |-> TRUE, entries |-> entries]

RECURSIVE HashMap_get(_, _)
HashMap_get(entries, id) ==
    IF entries = <<>> THEN None
    ELSE IF Head(entries).id = id THEN Head(entries).value
    ELSE HashMap_get(Tail(entries), id)

\* ------------------------------------------------------------------------
\* Graph nodes
\* ------------------------------------------------------------------------

\* axis and keep_dims are fields of the reduction operators only.
Node(kind, inputs, scalar, id, shape) ==
    [shape |-> shape, axis |-> NoAxis, keep_dims |-> FALSE, id |-> id,
     kind |-> kind, inputs |-> inputs, scalar |-> scalar]

\* ReduceSumOp::new, ReduceMeanOp::new
ReduceNode(kind, input, axis, keep_dims) ==
    [Node(kind, <<input>>, T_zero, "", <<>>) EXCEPT !.axis = axis, !.keep_dims = keep_dims]

BinaryKinds == {"AddOp", "SubOp", "MulOp", "DivOp"}
ScalarKinds == {"AddScalarOp", "SubScalarOp", "MulScalarOp", "DivScalarOp"}
ReduceKinds == {"ReduceSumOp", "ReduceMeanOp"}
LeafKinds == {"Variable", "Placeholder"}

check_tensor_shape_non_empty(shape) == shape # <<>>

\* get_inputs().unwrap_or_default()
get_inputs(n) == nodes[n].inputs

Res(val, ctx) == [val |-> val, ctx |-> ctx]

RECURSIVE value(_, _, _)

\* A Placeholder that hands out whatever array the feed holds for its id.
Placeholder_compute_unchecked(n, fd, ctx) ==
    IF ~fd.present THEN Res(PANIC, ctx)
    ELSE Bind(HashMap_get(fd.entries, nodes[n].id), LAMBDA v :
         IF v = None THEN Res(PANIC, ctx) ELSE Res(Array_clone(v), ctx))

Variable_compute(n, fd, ctx) == Res(Array_clone(varData[n]), ctx)

Placeholder_compute(n, fd, ctx) ==
    IF ~fd.present THEN Res(PANIC, ctx)
    ELSE Bind(HashMap_get(fd.entries, nodes[n].id), LAMBDA v :
         IF v = None THEN Res(PANIC, ctx)
         ELSE IF nodes[n].shape # get_shape(v) THEN Res(PANIC, ctx)
         ELSE Res(Array_clone(v), ctx))

\* impl_trait_op_2_inputs: &input_1.value(..) op &input_2.value(..)
compute_2_inputs(n, fd, ctx, f) ==
    Bind(value(nodes[n].inputs[1], fd, ctx), LAMBDA r1 :
    IF IsPanic(r1.val) THEN r1
    ELSE Bind(value(nodes[n].inputs[2], fd, r1.ctx), LAMBDA r2 :
         IF IsPanic(r2.val) THEN r2
         ELSE Res(compute_elementwise_with_other_array(r1.val, r2.val, f), r2.ctx)))

\* impl_trait_op_1_input_scalar: &input.value(..) op scalar
compute_1_input_scalar(n, fd, ctx, f) ==
    Bind(value(nodes[n].inputs[1], fd, ctx), LAMBDA r :
    IF IsPanic(r.val) THEN r
    ELSE Res(compute_elementwise_with_scalar(r.val, nodes[n].scalar, f), r.ctx))

NegOp_compute(n, fd, ctx) ==
    Bind(value(nodes[n].inputs[1], fd, ctx), LAMBDA r :
    IF IsPanic(r.val) THEN r ELSE Res(Array_neg(r.val), r.ctx))

\* (&input_1.value(..)).matmul(&input_2.value(..))
MatMulOp_compute(n, fd, ctx) ==
    Bind(value(nodes[n].inputs[1], fd, ctx), LAMBDA r1 :
    IF IsPanic(r1.val) THEN r1
    ELSE Bind(value(nodes[n].inputs[2], fd, r1.ctx), LAMBDA r2 :
         IF IsPanic(r2.val) THEN r2
         ELSE Res(Array_matmul(r1.val, r2.val), r2.ctx)))

ReduceSumOp_compute(n, fd, ctx) ==
    Bind(value(nodes[n].inputs[1], fd, ctx), LAMBDA r :
    IF IsPanic(r.val) THEN r
    ELSE Res(reduce_sum(r.val, nodes[n].axis, nodes[n].keep_dims), r.ctx))

ReduceMeanOp_compute(n, fd, ctx) ==
    Bind(value(nodes[n].inputs[1], fd, ctx), LAMBDA r :
    IF IsPanic(r.val) THEN r
    ELSE Res(reduce_mean(r.val, nodes[n].axis, nodes[n].keep_dims), r.ctx))

\* GraphOp::compute, dispatched on the node's type; the invocation is counted.
compute(n, fd, ctx0) ==
    Bind([ctx0 EXCEPT !.calls[n] = @ + 1], LAMBDA ctx :
    Bind(nodes[n].kind, LAMBDA kind :
        CASE kind = "Variable" -> Variable_compute(n, fd, ctx)
          [] kind = "Placeholder" -> Placeholder_compute(n, fd, ctx)
          [] kind = "AddOp" -> compute_2_inputs(n, fd, ctx, "add")
          [] kind = "SubOp" -> compute_2_inputs(n, fd, ctx, "sub")
          [] kind = "MulOp" -> compute_2_inputs(n, fd, ctx, "mul")
          [] kind = "DivOp" -> compute_2_inputs(n, fd, ctx, "div")
          [] kind = "AddScalarOp" -> compute_1_input_scalar(n, fd, ctx, "add")
          [] kind = "SubScalarOp" -> compute_1_input_scalar(n, fd, ctx, "sub")
          [] kind = "MulScalarOp" -> compute_1_input_scalar(n, fd, ctx, "mul")
          [] kind = "DivScalarOp" -> compute_1_input_scalar(n, fd, ctx, "div")
          [] kind = "NegOp" -> NegOp_compute(n, fd, ctx)
          [] kind = "MatMulOp" -> MatMulOp_compute(n, fd, ctx)
          [] kind = "ReduceSumOp" -> ReduceSumOp_compute(n, fd, ctx)
          [] kind = "ReduceMeanOp" -> ReduceMeanOp_compute(n, fd, ctx)))

\* A value that never looks into compute_cache.
value_uncached(n, fd, ctx) ==
    Bind(compute(n, fd, ctx), LAMBDA r :
    IF IsPanic(r.val) THEN r
    ELSE Res(Array_clone(r.val), [r.ctx EXCEPT !.cache[n] = r.val]))

\* GraphOp::value: the cached array, or compute() and remember.
value(n, fd, ctx) ==
    IF ctx.cache[n] # None THEN Res(Array_clone(ctx.cache[n]), ctx)
    ELSE Bind(compute(n, fd, ctx), LAMBDA r :
         IF IsPanic(r.val) THEN r
         ELSE Res(Array_clone(r.val), [r.ctx EXCEPT !.cache[n] = r.val]))

\* ------------------------------------------------------------------------
\* compute_accum_grad: [some, val, ctx]; val is PANIC when the call panics
\* ------------------------------------------------------------------------

SomeGrad(val, ctx) == [some |-> TRUE, val |-> val, ctx |-> ctx]
NoGrad(ctx) == [some |-> FALSE, val |-> None, ctx |-> ctx]

\* grad * &Array::new(fill, input.value(..).get_shape())
grad_times_filled(grad, fill, input, fd, ctx) ==
    Bind(value(input, fd, ctx), LAMBDA r :
    IF IsPanic(r.val) THEN SomeGrad(PANIC, r.ctx)
    ELSE SomeGrad(Array_mul(grad, Array_new(fill, get_shape(r.val))), r.ctx))

\* grad * &input.value(..)
grad_times_value(grad, input, fd, ctx) ==
    Bind(value(input, fd, ctx), LAMBDA r :
    IF IsPanic(r.val) THEN SomeGrad(PANIC, r.ctx)
    ELSE SomeGrad(Array_mul(grad, r.val), r.ctx))

AddOp_compute_accum_grad(n, fd, ctx, dependant_node, grad) ==
    LET input_1 == nodes[n].inputs[1]
        input_2 == nodes[n].inputs[2]
    IN  IF dependant_node = input_1 THEN grad_times_filled(grad, T_one, input_1, fd, ctx)
        ELSE IF dependant_node = input_2 THEN grad_times_filled(grad, T_one, input_2, fd, ctx)
        ELSE NoGrad(ctx)

MulOp_compute_accum_grad(n, fd, ctx, dependant_node, grad) ==
    LET input_1 == nodes[n].inputs[1]
        input_2 == nodes[n].inputs[2]
    IN  IF dependant_node = input_1 THEN grad_times_value(grad, input_2, fd, ctx)
        ELSE IF dependant_node = input_2 THEN grad_times_value(grad, input_1, fd, ctx)
        ELSE NoGrad(ctx)

\* Both branches fill with -T::one(); the first takes input_2's shape and the
\* second input_1's, as the source does.
SubOp_compute_accum_grad(n, fd, ctx, dependant_node, grad) ==
    LET input_1 == nodes[n].inputs[1]
        input_2 == nodes[n].inputs[2]
    IN  IF dependant_node = input_1 THEN grad_times_filled(grad, T_neg(T_one), input_2, fd, ctx)
        ELSE IF dependant_node = input_2 THEN grad_times_filled(grad, T_neg(T_one), input_1, fd, ctx)
        ELSE NoGrad(ctx)

\* grad * &(&filled / &denominator), filled = Array::new(fill, value1.get_shape())
DivOp_branch(n, fd, ctx, grad, fill, squared) ==
    Bind(value(nodes[n].inputs[1], fd, ctx), LAMBDA r1 :
    IF IsPanic(r1.val) THEN SomeGrad(PANIC, r1.ctx)
    ELSE Bind(value(nodes[n].inputs[2], fd, r1.ctx), LAMBDA r2 :
         IF IsPanic(r2.val) THEN SomeGrad(PANIC, r2.ctx)
         ELSE SomeGrad(Array_mul(grad,
                           Array_div(Array_new(fill, get_shape(r1.val)),
                                     IF squared THEN Array_mul(r2.val, r2.val) ELSE r2.val)),
                       r2.ctx)))

DivOp_compute_accum_grad(n, fd, ctx, dependant_node, grad) ==
    LET input_1 == nodes[n].inputs[1]
        input_2 == nodes[n].inputs[2]
    IN  IF dependant_node = input_1 THEN DivOp_branch(n, fd, ctx, grad, T_one, FALSE)
        ELSE IF dependant_node = input_2 THEN DivOp_branch(n, fd, ctx, grad, T_neg(T_one), TRUE)
        ELSE NoGrad(ctx)

\* The four scalar operators and NegOp: grad * &Array::new(fill, input shape)
scalar_compute_accum_grad(n, fd, ctx, dependant_node, grad, fill) ==
    IF dependant_node = nodes[n].inputs[1]
    THEN grad_times_filled(grad, fill, nodes[n].inputs[1], fd, ctx)
    ELSE NoGrad(ctx)

AddScalarOp_compute_accum_grad(n, fd, ctx, dependant_node, grad) ==
    scalar_compute_accum_grad(n, fd, ctx, dependant_node, grad, T_one)

SubScalarOp_compute_accum_grad(n, fd, ctx, dependant_node, grad) ==
    scalar_compute_accum_grad(n, fd, ctx, dependant_node, grad, T_neg(T_one))

MulScalarOp_compute_accum_grad(n, fd, ctx, dependant_node, grad) ==
    scalar_compute_accum_grad(n, fd, ctx, dependant_node, grad, nodes[n].scalar)

DivScalarOp_compute_accum_grad(n, fd, ctx, dependant_node, grad) ==
    scalar_compute_accum_grad(n, fd, ctx, dependant_node, grad, T_div(T_one, nodes[n].scalar))

NegOp_compute_accum_grad(n, fd, ctx, dependant_node, grad) ==
    scalar_compute_accum_grad(n, fd, ctx, dependant_node, grad, T_neg(T_one))

\* A MatMulOp that routes grad.matmul(input_2) and input_1.matmul(grad),
\* without transposing.
MatMulOp_compute_accum_grad_untransposed(n, fd, ctx, dependant_node, grad) ==
    IF dependant_node = nodes[n].inputs[1]
    THEN Bind(value(nodes[n].inputs[2], fd, ctx), LAMBDA r :
         IF IsPanic(r.val) THEN SomeGrad(PANIC, r.ctx)
         ELSE SomeGrad(Array_matmul(grad, r.val), r.ctx))
    ELSE IF dependant_node = nodes[n].inputs[2]
    THEN Bind(value(nodes[n].inputs[1], fd, ctx), LAMBDA r :
         IF IsPanic(r.val) THEN SomeGrad(PANIC, r.ctx)
         ELSE SomeGrad(Array_matmul(r.val, grad), r.ctx))
    ELSE NoGrad(ctx)

MatMulOp_compute_accum_grad(n, fd, ctx, dependant_node, grad) ==
    IF dependant_node = nodes[n].inputs[1]
    THEN Bind(value(nodes[n].inputs[2], fd, ctx), LAMBDA r :
         IF IsPanic(r.val) THEN SomeGrad(PANIC, r.ctx)
         ELSE SomeGrad(Array_matmul(grad, Array_transpose(r.val)), r.ctx))
    ELSE IF dependant_node = nodes[n].inputs[2]
    THEN Bind(value(nodes[n].inputs[1], fd, ctx), LAMBDA r :
         IF IsPanic(r.val) THEN SomeGrad(PANIC, r.ctx)
         ELSE SomeGrad(Array_matmul(Array_transpose(r.val), grad), r.ctx))
    ELSE NoGrad(ctx)

ReduceSumOp_compute_accum_grad(n, fd, ctx, dependant_node, grad) ==
    scalar_compute_accum_grad(n, fd, ctx, dependant_node, grad, T_one)

\* dim_size = self.axis.unwrap_or(computed_value.data.len());
\* grad * &Array::new(T::one() / cast(dim_size), computed_value.get_shape())
ReduceMeanOp_compute_accum_grad(n, fd, ctx, dependant_node, grad) ==
    IF dependant_node = nodes[n].inputs[1]
    THEN Bind(value(nodes[n].inputs[1], fd, ctx), LAMBDA computed_value :
         IF IsPanic(computed_value.val) THEN SomeGrad(PANIC, computed_value.ctx)
         ELSE Bind(IF nodes[n].axis # NoAxis THEN nodes[n].axis
                   ELSE Len(computed_value.val.data), LAMBDA dim_size :
              SomeGrad(Array_mul(grad, Array_new(T_div(T_one, Num(dim_size)),
                                                 get_shape(computed_value.val))),
                       computed_value.ctx)))
    ELSE NoGrad(ctx)

\* GraphOp::compute_accum_grad, dispatched on the node's type.  Variable and
\* Placeholder return None.
compute_accum_grad(n, fd, ctx, dependant_node, grad) ==
    Bind(nodes[n].kind, LAMBDA kind :
    CASE kind \in LeafKinds -> NoGrad(ctx)
      [] kind = "AddOp" -> AddOp_compute_accum_grad(n, fd, ctx, dependant_node, grad)
      [] kind = "SubOp" -> SubOp_compute_accum_grad(n, fd, ctx, dependant_node, grad)
      [] kind = "MulOp" -> MulOp_compute_accum_grad(n, fd, ctx, dependant_node, grad)
      [] kind = "DivOp" -> DivOp_compute_accum_grad(n, fd, ctx, dependant_node, grad)
      [] kind = "AddScalarOp" -> AddScalarOp_compute_accum_grad(n, fd, ctx, dependant_node, grad)
      [] kind = "SubScalarOp" -> SubScalarOp_compute_accum_grad(n, fd, ctx, dependant_node, grad)
      [] kind = "MulScalarOp" -> MulScalarOp_compute_accum_grad(n, fd, ctx, dependant_node, grad)
      [] kind = "DivScalarOp" -> DivScalarOp_compute_accum_grad(n, fd, ctx, dependant_node, grad)
      [] kind = "NegOp" -> NegOp_compute_accum_grad(n, fd, ctx, dependant_node, grad)
      [] kind = "MatMulOp" -> MatMulOp_compute_accum_grad(n, fd, ctx, dependant_node, grad)
      [] kind = "ReduceSumOp" -> ReduceSumOp_compute_accum_grad(n, fd, ctx, dependant_node, grad)
      [] kind = "ReduceMeanOp" -> ReduceMeanOp_compute_accum_grad(n, fd, ctx, dependant_node, grad))

\* WrapperOp::compute_accum_grad hands the call to the node it wraps.
WrapperOp_compute_accum_grad(input, fd, ctx, dependant_node, grad) ==
    compute_accum_grad(input, fd, ctx, dependant_node, grad)

\* ------------------------------------------------------------------------
\* Tensor: building the graph
\* ------------------------------------------------------------------------

NoRet == [some |-> FALSE, target |-> 0, value |-> None, op |-> "none",
          node |-> 0, arg |-> None, status |-> "ok"]

Ret(op, node, tgt, arg, val, some) ==
    [some |-> some /\ ~IsPanic(val), target |-> tgt,
     value |-> IF some /\ ~IsPanic(val) THEN val ELSE None,
     op |-> op, node |-> node, arg |-> arg,
     status |-> IF IsPanic(val) THEN "panic" ELSE "ok"]

CallIdle ==
    /\ pc = "idle"

NoCallState ==
    /\ root' = 0
    /\ target' = 0
    /\ feed_dict' = NoFeed
    /\ stack' = <<>>
    /\ accumm_grad_map' = EmptyMap
    /\ compute_cache' = EmptyMap
    /\ compute_calls' = NoCalls
    /\ accum_calls' = 0

AppendNode(node, data) ==
    /\ nodes' = Append(nodes, node)
    /\ varData' = Append(varData, data)
    /\ UNCHANGED <<iter, yielded, iter_trailing_dims, pc, root, target, feed_dict, stack, accumm_grad_map,
                   compute_cache, compute_calls, accum_calls, ret>>

\* Tensor::new_variable: the node and the handle share init_value.
new_variable(init_value, limit) ==
    /\ CallIdle
    /\ Len(nodes) < limit
    /\ check_tensor_shape_non_empty(get_shape(init_value))
    /\ AppendNode(Node("Variable", <<>>, T_zero, "", get_shape(init_value)), init_value)

\* Tensor::new_placeholder
new_placeholder(id, shape, limit) ==
    /\ CallIdle
    /\ Len(nodes) < limit
    /\ check_tensor_shape_non_empty(shape)
    /\ AppendNode(Node("Placeholder", <<>>, T_zero, id, shape), None)

\* &a + &b, &a - &b, &a * &b, &a / &b
new_op_2_inputs(kind, a, b, limit) ==
    /\ CallIdle
    /\ Len(nodes) < limit
    /\ a \in NodeIds /\ b \in NodeIds
    /\ AppendNode(Node(kind, <<a, b>>, T_zero, "", <<>>), None)

\* &a + s, &a - s, &a * s, &a / s
new_op_scalar(kind, a, scalar, limit) ==
    /\ CallIdle
    /\ Len(nodes) < limit
    /\ a \in NodeIds
    /\ AppendNode(Node(kind, <<a>>, scalar, "", <<>>), None)

\* -&a
new_neg(a, limit) ==
    /\ CallIdle
    /\ Len(nodes) < limit
    /\ a \in NodeIds
    /\ AppendNode(Node("NegOp", <<a>>, T_zero, "", <<>>), None)

\* ------------------------------------------------------------------------
\* Tensor::eval
\* ------------------------------------------------------------------------

\* An eval that moves every Variable's array out of its cell and leaves
\* zeros behind.
Eval_draining(n, fd) ==
    /\ CallIdle
    /\ n \in NodeIds
    /\ \E r \in {value(n, fd, NewContext)} :
        /\ ret' = Ret("eval", n, 0, None, r.val, TRUE)
        /\ compute_cache' = r.ctx.cache
        /\ compute_calls' = r.ctx.calls
    /\ pc' = "done"
    /\ root' = n
    /\ feed_dict' = fd
    /\ varData' = [k \in DOMAIN varData |->
                     IF nodes[k].kind = "Variable"
                     THEN Array_new(T_zero, get_shape(varData[k]))
                     ELSE varData[k]]
    /\ UNCHANGED <<iter, yielded, iter_trailing_dims, nodes, target, stack, accumm_grad_map, accum_calls>>

\* GraphOp::eval: a fresh compute_cache, then value().
Eval(n, fd) ==
    /\ CallIdle
    /\ n \in NodeIds
    /\ \E r \in {value(n, fd, NewContext)} :
        /\ ret' = Ret("eval", n, 0, None, r.val, TRUE)
        /\ compute_cache' = r.ctx.cache
        /\ compute_calls' = r.ctx.calls
    /\ pc' = "done"
    /\ root' = n
    /\ feed_dict' = fd
    /\ UNCHANGED <<iter, yielded, iter_trailing_dims, nodes, varData, target, stack, accumm_grad_map, accum_calls>>

\* ------------------------------------------------------------------------
\* Tensor::grad / GraphOp::grad
\* ------------------------------------------------------------------------

\* A traversal that pushes no (child, parent) pair.
push_children_none(stk, children, parent) == stk

\* A root gradient seeded with zeros.
accumm_grad_self_zeros(self_value) == Array_new(T_zero, get_shape(self_value))

\* Array::new(T::one(), self.compute(..).get_shape())
accumm_grad_self(self_value) == Array_new(T_one, get_shape(self_value))

\* A traversal that follows only the first input of every node.
push_children_first(stk, children, parent) ==
    IF children = <<>> THEN stk ELSE Append(stk, <<Head(children), parent>>)

\* stack.push((child, parent)) for child in children
RECURSIVE push_children(_, _, _)
push_children(stk, children, parent) ==
    IF children = <<>> THEN stk
    ELSE push_children(Append(stk, <<Head(children), parent>>), Tail(children), parent)

\* Lines 84-102: the fresh maps, self.compute, the self-gradient return, the
\* seeding of the phantom parent and the first pushes.
GradStart(self, node, fd) ==
    /\ CallIdle
    /\ self \in NodeIds /\ node \in NodeIds
    /\ root' = self
    /\ target' = node
    /\ feed_dict' = fd
    /\ accum_calls' = 0
    /\ \E r \in {compute(self, fd, NewContext)} :
       \E seed \in {accumm_grad_self(r.val)} :
           /\ compute_cache' = r.ctx.cache
           /\ compute_calls' = r.ctx.calls
           /\ IF IsPanic(r.val)
              THEN /\ pc' = "done"
                   /\ ret' = Ret("grad", self, node, None, PANIC, FALSE)
                   /\ stack' = <<>>
                   /\ accumm_grad_map' = EmptyMap
              ELSE IF self = node
              THEN /\ pc' = "done"
                   /\ ret' = Ret("grad", self, node, None, seed, TRUE)
                   /\ stack' = <<>>
                   /\ accumm_grad_map' = EmptyMap
              ELSE /\ pc' = "loop"
                   /\ ret' = NoRet
                   /\ accumm_grad_map' = [EmptyMap EXCEPT ![WrapperKey] = seed]
                   /\ stack' = push_children(<<>>, get_inputs(self), WrapperKey)
    /\ UNCHANGED <<iter, yielded, iter_trailing_dims, nodes, varData>>

\* A loop that forgets the contribution it was handed.
accumulate_nothing(map, key, grad) == map

\* An insert that replaces the entry a key already has.
accumulate_overwrite(map, key, grad) == [map EXCEPT ![key] = grad]

\* accumm_grad_map after `*accumm_grad += &grad` or insert.
accumulate(map, key, grad) ==
    IF map[key] # None
    THEN [map EXCEPT ![key] = Array_add_assign(map[key], grad)]
    ELSE [map EXCEPT ![key] = grad]

\* One iteration of `while let Some((current_node, current_parrent)) = stack.pop()`.
GradStep ==
    /\ pc = "loop"
    /\ stack # <<>>
    /\ \E current_node \in {stack[Len(stack)][1]} :
       \E current_parrent \in {stack[Len(stack)][2]} :
       \E popped \in {SubSeq(stack, 1, Len(stack) - 1)} :
       \E upstream \in {accumm_grad_map[current_parrent]} :
       \E ctx \in {[cache |-> compute_cache, calls |-> compute_calls]} :
       \E parrent_grad \in
               {IF current_parrent = WrapperKey
                THEN WrapperOp_compute_accum_grad(root, feed_dict, ctx, current_node, upstream)
                ELSE compute_accum_grad(current_parrent, feed_dict, ctx, current_node, upstream)} :
       \E map \in {IF parrent_grad.some
                   THEN accumulate(accumm_grad_map, current_node, parrent_grad.val)
                   ELSE accumm_grad_map} :
       \E children \in {get_inputs(current_node)} :
       \E panicked \in {\/ upstream = None
                        \/ IsPanic(parrent_grad.val)
                        \/ IsPanic(map[current_node])} :
           IF panicked
           THEN /\ pc' = "done"
                /\ ret' = Ret("grad", root, target, None, PANIC, FALSE)
                /\ stack' = popped
                /\ UNCHANGED <<accumm_grad_map, compute_cache, compute_calls>>
                /\ accum_calls' = accum_calls + 1
           ELSE /\ pc' = "loop"
                /\ ret' = NoRet
                /\ accumm_grad_map' = map
                /\ compute_cache' = parrent_grad.ctx.cache
                /\ compute_calls' = parrent_grad.ctx.calls
                /\ accum_calls' = accum_calls + 1
                /\ stack' = IF current_node # target /\ children # <<>>
                            THEN push_children(popped, children, current_node)
                            ELSE popped
    /\ UNCHANGED <<iter, yielded, iter_trailing_dims, nodes, varData, root, target, feed_dict>>

\* The stack is empty: accumm_grad_map.remove(&node.ref_as_usize()).
GradReturn ==
    /\ pc = "loop"
    /\ stack = <<>>
    /\ pc' = "done"
    /\ ret' = Ret("grad", root, target, None, accumm_grad_map[target],
                  accumm_grad_map[target] # None)
    /\ UNCHANGED <<iter, yielded, iter_trailing_dims, nodes, varData, root, target, feed_dict, stack, accumm_grad_map,
                   compute_cache, compute_calls, accum_calls>>

\* ------------------------------------------------------------------------
\* Tensor::shape, Tensor::assign, Tensor::assign_add
\* ------------------------------------------------------------------------

\* A handle that holds data whatever its node is.
variable_data_any(n) ==
    IF nodes[n].kind = "Variable" THEN varData[n] ELSE Array_new(T_zero, <<1>>)

\* Tensor::variable_data: Some for a tensor made by new_variable only.
variable_data(n) == IF nodes[n].kind = "Variable" THEN varData[n] ELSE None

\* Variable::shape and Placeholder::shape: the shape stored at construction.
Tensor_shape(n) == nodes[n].shape

\* An assign that leaves the stored array as it was.
assign_value_kept(old, new_value) == old

\* The value assign stores.
assign_value(old, new_value) == Array_clone(new_value)

\* The value assign_add stores.
assign_add_value(old, delta) == Array_add_assign(old, delta)

Shape(n) ==
    /\ CallIdle
    /\ n \in NodeIds
    /\ nodes[n].kind \in LeafKinds
    /\ pc' = "done"
    /\ ret' = [Ret("shape", n, 0, None, None, FALSE) EXCEPT !.value = [shape |-> Tensor_shape(n), data |-> <<>>]]
    /\ root' = n
    /\ UNCHANGED <<iter, yielded, iter_trailing_dims, nodes, varData, target, feed_dict, stack, accumm_grad_map,
                   compute_cache, compute_calls, accum_calls>>

Assign(n, new_value) ==
    /\ CallIdle
    /\ n \in NodeIds
    /\ pc' = "done"
    /\ root' = n
    /\ IF variable_data(n) = None
       THEN /\ ret' = Ret("assign", n, 0, new_value, PANIC, FALSE)
            /\ UNCHANGED varData
       ELSE /\ ret' = Ret("assign", n, 0, new_value, None, FALSE)
            /\ varData' = [varData EXCEPT ![n] = assign_value(varData[n], new_value)]
    /\ UNCHANGED <<iter, yielded, iter_trailing_dims, nodes, target, feed_dict, stack, accumm_grad_map,
                   compute_cache, compute_calls, accum_calls>>

\* stored is the set of elements a Variable may come to hold: it keeps
\* repeated assign_add calls from growing the data without bound.
AssignAdd(n, delta, stored) ==
    /\ CallIdle
    /\ n \in NodeIds
    /\ pc' = "done"
    /\ root' = n
    /\ IF variable_data(n) = None
       THEN /\ ret' = Ret("assign_add", n, 0, delta, PANIC, FALSE)
            /\ UNCHANGED varData
       ELSE \E sum \in {assign_add_value(varData[n], delta)} :
            IF IsPanic(sum)
            THEN /\ ret' = Ret("assign_add", n, 0, delta, PANIC, FALSE)
                 /\ UNCHANGED varData
            ELSE /\ \A i \in 1..Len(sum.data) : sum.data[i] \in stored
                 /\ ret' = [Ret("assign_add", n, 0, delta, None, FALSE) EXCEPT !.value = varData[n]]
                 /\ varData' = [varData EXCEPT ![n] = sum]
    /\ UNCHANGED <<iter, yielded, iter_trailing_dims, nodes, target, feed_dict, stack, accumm_grad_map,
                   compute_cache, compute_calls, accum_calls>>

\* The call has returned (or unwound); its maps are dropped.
Return ==
    /\ pc = "done"
    /\ pc' = "idle"
    /\ ret' = NoRet
    /\ NoCallState
    /\ UNCHANGED <<iter, yielded, iter_trailing_dims, nodes, varData>>

\* ------------------------------------------------------------------------
\* Inputs shared by the specifications
\* ------------------------------------------------------------------------

\* The element values programs put into arrays.
Values == {1, 2}

PlaceholderId == "x"

Init ==
    /\ nodes = <<>>
    /\ varData = <<>>
    /\ pc = "idle"
    /\ root = 0
    /\ target = 0
    /\ feed_dict = NoFeed
    /\ stack = <<>>
    /\ accumm_grad_map = EmptyMap
    /\ compute_cache = EmptyMap
    /\ compute_calls = NoCalls
    /\ accum_calls = 0
    /\ ret = NoRet
    /\ iter = NoIterator
    /\ yielded = <<>>
    /\ iter_trailing_dims = 0

\* m is n or is reachable from n through get_inputs edges.
RECURSIVE Reaches(_, _)
Reaches(n, m) ==
    \/ n = m
    \/ \E i \in 1..Len(nodes[n].inputs) : Reaches(nodes[n].inputs[i], m)

HasPlaceholder(n) == \E m \in NodeIds : Reaches(n, m) /\ nodes[m].kind = "Placeholder"

\* The feed mappings a call on tensor n is given.  A graph without a
\* Placeholder never reads its feed_dict and is called with None.
FeedsFor(n, feeds) == IF HasPlaceholder(n) THEN feeds ELSE {NoFeed}

\* ------------------------------------------------------------------------
\* Specification Spec: programs that build a graph over scalar-shaped leaves
\* and call eval, grad, assign, assign_add and shape on its tensors
\* ------------------------------------------------------------------------

\* Array::new(v, vec![1])
Scalars == {Array_new(Num(v), <<1>>) : v \in Values}

GraphKinds == {"AddOp", "MulOp"}

\* No feed_dict, one without the id, one with a value of the declared shape,
\* one with a value of another shape.
Feeds ==
    {NoFeed, FeedOf(<<>>)}
    \cup {FeedOf(<<[id |-> PlaceholderId, value |-> a]>>) : a \in Scalars}
    \cup {FeedOf(<<[id |-> PlaceholderId, value |-> Array_new(T_one, <<2>>)]>>)}

Next ==
    \/ \E a \in Scalars : new_variable(a, MaxNodes)
    \/ new_placeholder(PlaceholderId, <<1>>, MaxNodes)
    \/ \E k \in GraphKinds, a, b \in NodeIds : new_op_2_inputs(k, a, b, MaxNodes)
    \/ \E a \in NodeIds : new_neg(a, MaxNodes)
    \/ \E n \in NodeIds : \E fd \in FeedsFor(n, Feeds) : Eval(n, fd)
    \/ \E n, m \in NodeIds : \E fd \in FeedsFor(n, Feeds) : GradStart(n, m, fd)
    \/ GradStep
    \/ GradReturn
    \/ \E n \in NodeIds, a \in Scalars : Assign(n, a)
    \/ \E n \in NodeIds, a \in Scalars : AssignAdd(n, a, {Num(v) : v \in Values})
    \/ \E n \in NodeIds : Shape(n)
    \/ Return

Spec == Init /\ [][Next]_vars

\* GradStep's guard; the step always changes the stack or leaves the loop, so
\* this is ENABLED <<GradStep>>_vars.
GradStepEnabled == pc = "loop" /\ stack # <<>>

\* Spec with grad's loop running to its end: the while-let loop and the
\* return after it are straight-line code of one call, which nothing suspends.
\* The first condition is WF_vars(GradStep) with its enabling condition
\* written out.
SpecFair ==
    /\ Spec
    /\ ([]<>(~GradStepEnabled) \/ []<><<GradStep>>_vars)
    /\ WF_vars(GradReturn)

\* ------------------------------------------------------------------------
\* Specification SpecGrad: programs that build a deeper graph over Variables
\* and call grad on its tensors
\* ------------------------------------------------------------------------

\* Array::new(1., vec![1]), Array::new(2., vec![1])
GradScalars == {Array_new(Num(v), <<1>>) : v \in Values}

NextGrad ==
    \/ \E a \in GradScalars : new_variable(a, MaxGradNodes)
    \/ \E k \in GraphKinds, a, b \in NodeIds : new_op_2_inputs(k, a, b, MaxGradNodes)
    \/ \E a \in NodeIds : new_neg(a, MaxGradNodes)
    \/ \E n, m \in NodeIds : GradStart(n, m, NoFeed)
    \/ GradStep
    \/ GradReturn
    \/ Return

SpecGrad == Init /\ [][NextGrad]_vars

\* ------------------------------------------------------------------------
\* Specification SpecShapes: few tensors, arrays of several shapes
\* ------------------------------------------------------------------------

\* Shapes [1] and [2] broadcast together, [2] and [3] do not.
ShapeArrays ==
    {Array_new(T_one, <<1>>),
     Array_from_vec(<<Num(1), Num(2)>>, <<2>>),
     Array_new(T_one, <<3>>)}

\* The elements a Variable of SpecShapes may come to hold.
ShapeValues == {Num(v) : v \in 1..3}

ShapeKinds == {"AddOp", "MulOp"}

ShapeFeeds ==
    {NoFeed,
     FeedOf(<<[id |-> PlaceholderId, value |-> Array_from_vec(<<Num(1), Num(2)>>, <<2>>)]>>),
     FeedOf(<<[id |-> PlaceholderId, value |-> Array_new(T_one, <<1>>)]>>)}

NextShapes ==
    \/ \E a \in ShapeArrays : new_variable(a, MaxShapeNodes)
    \/ new_placeholder(PlaceholderId, <<2>>, MaxShapeNodes)
    \/ \E k \in ShapeKinds, a, b \in NodeIds : new_op_2_inputs(k, a, b, MaxShapeNodes)
    \/ \E n \in NodeIds : \E fd \in FeedsFor(n, ShapeFeeds) : Eval(n, fd)
    \/ \E n, m \in NodeIds : \E fd \in FeedsFor(n, ShapeFeeds) : GradStart(n, m, fd)
    \/ GradStep
    \/ GradReturn
    \/ \E n \in NodeIds, a \in ShapeArrays : Assign(n, a)
    \/ \E n \in NodeIds, a \in ShapeArrays : AssignAdd(n, a, ShapeValues)
    \/ \E n \in NodeIds : Shape(n)
    \/ Return

SpecShapes == Init /\ [][NextShapes]_vars

\* ------------------------------------------------------------------------
\* Specification SpecRule: compute_accum_grad of one operator node, applied
\* to drawn input values and a drawn upstream gradient
\* ------------------------------------------------------------------------

\* The arrays of shape [2] over Values.
RuleArrays == {Array_from_vec(<<Num(a), Num(b)>>, <<2>>) : a, b \in Values}

\* Upstream gradients: all ones, and two that tell the positions apart.
RuleGrads ==
    {Array_new(T_one, <<2>>),
     Array_from_vec(<<Num(1), Num(3)>>, <<2>>),
     Array_from_vec(<<Num(-2), Num(1)>>, <<2>>)}

\* The scalar constants of the one-input operators.
RuleScalars == {Num(v) : v \in Values}

\* The array of this shape holding 1, 2, 3, .. in row-major order.
Iota(sh) == Array_from_vec([i \in 1..Product(sh) |-> Num(i)], sh)

\* The inputs of the reductions: ranks 1 and 2, with a dimension of length 1,
\* and a dimension whose length differs from its index.
ReduceArrays == {Iota(sh) : sh \in {<<3>>, <<2, 2>>, <<1, 2>>, <<2, 3>>}}

\* The operand pairs of the matrix products: plain matrices, equal batch
\* dimensions, and the pair of test_matmul.
MatPairs ==
    {<<Iota(<<2, 2>>), Iota(<<2, 2>>)>>,
     <<Iota(<<1, 2>>), Iota(<<2, 3>>)>>,
     <<Iota(<<2, 2, 1>>), Iota(<<2, 1, 2>>)>>,
     <<Array_new(Num(1), <<2, 3, 2>>), Array_new(Num(2), <<2, 2, 4>>)>>}

\* axis of a reduction of x: None, or Some(k) with k below the rank.
ReduceAxes(x) == {NoAxis} \cup (0..(Len(get_shape(x)) - 1))

\* z = x op y over two Variables, or z = x op s over the first of them and a
\* scalar constant, or z = reduce(x, axis, keep_dims), or z = x.matmul(y);
\* z is node 3.
InitRule ==
    /\ \/ \E xy \in MatPairs :
            /\ nodes = <<Node("Variable", <<>>, T_zero, "", get_shape(xy[1])),
                         Node("Variable", <<>>, T_zero, "", get_shape(xy[2])),
                         Node("MatMulOp", <<1, 2>>, T_zero, "", <<>>)>>
            /\ varData = <<xy[1], xy[2], None>>
       \/ \E k \in ReduceKinds, x \in ReduceArrays, keep_dims \in BOOLEAN :
            \E axis \in ReduceAxes(x) :
                /\ nodes = <<Node("Variable", <<>>, T_zero, "", get_shape(x)),
                             Node("Variable", <<>>, T_zero, "", get_shape(x)),
                             ReduceNode(k, 1, axis, keep_dims)>>
                /\ varData = <<x, x, None>>
       \/ \E x, y \in RuleArrays :
            /\ \/ \E k \in BinaryKinds :
                    nodes = <<Node("Variable", <<>>, T_zero, "", get_shape(x)),
                              Node("Variable", <<>>, T_zero, "", get_shape(y)),
                              Node(k, <<1, 2>>, T_zero, "", <<>>)>>
               \/ \E k \in ScalarKinds, s \in RuleScalars :
                    nodes = <<Node("Variable", <<>>, T_zero, "", get_shape(x)),
                              Node("Variable", <<>>, T_zero, "", get_shape(y)),
                              Node(k, <<1>>, s, "", <<>>)>>
            /\ varData = <<x, y, None>>
    /\ pc = "idle"
    /\ root = 0
    /\ target = 0
    /\ feed_dict = NoFeed
    /\ stack = <<>>
    /\ accumm_grad_map = EmptyMap
    /\ compute_cache = EmptyMap
    /\ compute_calls = NoCalls
    /\ accum_calls = 0
    /\ ret = NoRet
    /\ iter = NoIterator
    /\ yielded = <<>>
    /\ iter_trailing_dims = 0

\* self.compute_accum_grad(None, &mut cache, dependant_node, grad) on a fresh
\* cache.
RouteGrad(self, dependant_node, grad) ==
    /\ CallIdle
    /\ self \in NodeIds /\ dependant_node \in NodeIds
    /\ \E r \in {compute_accum_grad(self, NoFeed, NewContext, dependant_node, grad)} :
        /\ ret' = Ret("accum", self, dependant_node, grad, r.val, r.some)
        /\ compute_cache' = r.ctx.cache
        /\ compute_calls' = r.ctx.calls
    /\ pc' = "done"
    /\ root' = self
    /\ target' = dependant_node
    /\ accum_calls' = 1
    /\ UNCHANGED <<iter, yielded, iter_trailing_dims, nodes, varData, feed_dict, stack, accumm_grad_map>>

\* The upstream gradients handed to node n: of the shape of n's value.
GradsFor(n) ==
    IF nodes[n].kind \in ReduceKinds
    THEN Bind(get_shape_after_reduce(varData[nodes[n].inputs[1]],
                                     nodes[n].axis, nodes[n].keep_dims), LAMBDA sh :
            {Array_new(T_one, sh),
             Iota(sh)})
    ELSE IF nodes[n].kind = "MatMulOp"
    THEN Bind(get_shape_after_broadcast_matmul(varData[1].shape, varData[2].shape), LAMBDA sh :
            {Array_new(T_one, sh), Iota(sh)})
    ELSE RuleGrads

NextRule ==
    \/ \E d \in NodeIds : \E g \in GradsFor(Len(nodes)) : RouteGrad(Len(nodes), d, g)
    \/ Return

SpecRule == InitRule /\ [][NextRule]_vars

\* ------------------------------------------------------------------------
\* Specification SpecBroadcast: eval and grad of z = x op y over two
\* Variables whose arrays are broadcast against each other
\* ------------------------------------------------------------------------

\* Operand pairs of the elementwise operators: equal shapes, a one-element
\* array against a longer one, a lower rank against a higher one, and both
\* operands stretched.
BroadcastPairs ==
    {<<Iota(<<2>>), Iota(<<2>>)>>,
     <<Iota(<<1>>), Iota(<<2>>)>>,
     <<Iota(<<2, 2>>), Iota(<<2>>)>>,
     <<Iota(<<2, 1>>), Iota(<<1, 2>>)>>}

\* Operand pairs of matmul: plain matrices, a second operand of lower rank,
\* and a first operand whose batch dimension of length 1 is stretched.
MatBroadcastPairs ==
    {<<Iota(<<2, 2>>), Iota(<<2, 2>>)>>,
     <<Iota(<<3, 2, 1>>), Iota(<<1, 2>>)>>,
     <<Iota(<<1, 2, 2>>), Iota(<<3, 2, 1>>)>>}

\* x = Tensor::new_variable(..), y = Tensor::new_variable(..), z = &x op &y or
\* z = x.matmul(&y); z is node 3.
InitBroadcast ==
    /\ \/ \E xy \in BroadcastPairs, k \in BinaryKinds :
            /\ nodes = <<Node("Variable", <<>>, T_zero, "", get_shape(xy[1])),
                         Node("Variable", <<>>, T_zero, "", get_shape(xy[2])),
                         Node(k, <<1, 2>>, T_zero, "", <<>>)>>
            /\ varData = <<xy[1], xy[2], None>>
       \/ \E xy \in MatBroadcastPairs :
            /\ nodes = <<Node("Variable", <<>>, T_zero, "", get_shape(xy[1])),
                         Node("Variable", <<>>, T_zero, "", get_shape(xy[2])),
                         Node("MatMulOp", <<1, 2>>, T_zero, "", <<>>)>>
            /\ varData = <<xy[1], xy[2], None>>
    /\ pc = "idle"
    /\ root = 0
    /\ target = 0
    /\ feed_dict = NoFeed
    /\ stack = <<>>
    /\ accumm_grad_map = EmptyMap
    /\ compute_cache = EmptyMap
    /\ compute_calls = NoCalls
    /\ accum_calls = 0
    /\ ret = NoRet
    /\ iter = NoIterator
    /\ yielded = <<>>
    /\ iter_trailing_dims = 0

NextBroadcast ==
    \/ \E n \in NodeIds : Eval(n, NoFeed)
    \/ \E n, m \in NodeIds : GradStart(n, m, NoFeed)
    \/ GradStep
    \/ GradReturn
    \/ Return

SpecBroadcast == InitBroadcast /\ [][NextBroadcast]_vars

\* ------------------------------------------------------------------------
\* Specification SpecArray: the public operations of Array, applied to two
\* live arrays a = varData[1] and b = varData[2]
\* ------------------------------------------------------------------------

\* The shapes of the drawn arrays: ranks 1 to 3, with dimensions of length 1
\* and with batch dimensions that are equal, stretched and incompatible.
ArrayShapes ==
    {<<1>>, <<2>>, <<3>>, <<1, 2>>, <<2, 1>>, <<2, 2>>, <<2, 3>>, <<3, 2>>,
     <<2, 1, 2>>, <<1, 2, 2>>, <<3, 2, 1>>}

\* The arrays a program starts from.
ArrayInputs == {Iota(sh) : sh \in ArrayShapes}

\* Shapes handed to the constructors, rejected ones included.
NewShapes == ArrayShapes \cup {<<0>>, <<2, 0>>, <<0, 2>>}

\* Buffers handed to from_vec.
NewBuffers == {[i \in 1..n |-> Num(i)] : n \in 1..4}

\* Closures and scalars handed to the operations.
ArrayFns == {"add", "sub", "mul", "div"}
ArrayScalars == {Num(2)}
ReduceFns == {"add", "mul", "max", "min"}

\* Indices handed to index assignment, out-of-range ones included.
ArrayIndices == {<<0>>, <<2>>, <<1, 1>>, <<1, 2>>, <<0, 0, 1>>}

InitArray ==
    /\ nodes = <<>>
    /\ \E a, b \in ArrayInputs : varData = <<a, b>>
    /\ pc = "idle"
    /\ root = 0
    /\ target = 0
    /\ feed_dict = NoFeed
    /\ stack = <<>>
    /\ accumm_grad_map = EmptyMap
    /\ compute_cache = EmptyMap
    /\ compute_calls = NoCalls
    /\ accum_calls = 0
    /\ ret = NoRet
    /\ iter = NoIterator
    /\ yielded = <<>>
    /\ iter_trailing_dims = 0

\* What a call was given: the receiver as it was before the call, and the
\* other arguments.
ArrayArgs(self, other, f, scalar, axis, keep_dims, index) ==
    [f |-> f, self |-> self, other |-> other, index |-> index,
     axis |-> axis, keep_dims |-> keep_dims, scalar |-> scalar]

\* A call that returns a new array; a and b are left alone.
ArrayCall(op, args, val) ==
    /\ CallIdle
    /\ pc' = "done"
    /\ ret' = Ret(op, 0, 0, args, val, TRUE)
    /\ UNCHANGED <<iter, yielded, iter_trailing_dims, nodes, varData, root, target, feed_dict, stack, accumm_grad_map,
                   compute_cache, compute_calls, accum_calls>>

\* A call on &mut a: a holds val afterwards, unless the call panicked.  Only
\* an array the program started from is mutated.
ArrayAssignCall(op, args, val) ==
    /\ CallIdle
    /\ varData[1] \in ArrayInputs
    /\ pc' = "done"
    /\ ret' = Ret(op, 0, 0, args, val, TRUE)
    /\ varData' = IF IsPanic(val) THEN varData ELSE [varData EXCEPT ![1] = val]
    /\ UNCHANGED <<iter, yielded, iter_trailing_dims, nodes, root, target, feed_dict, stack, accumm_grad_map,
                   compute_cache, compute_calls, accum_calls>>

\* Array::new(init_value, shape)
ArrayNew(init_value, shape) ==
    ArrayCall("new", ArrayArgs(None, None, "", init_value, NoAxis, FALSE, shape),
              Array_new(init_value, shape))

\* Array::from_vec(data, shape)
ArrayFromVec(data, shape) ==
    ArrayCall("from_vec", ArrayArgs([shape |-> <<>>, data |-> data], None, "", T_zero,
                                    NoAxis, FALSE, shape),
              Array_from_vec(data, shape))

\* a.add(&b), a.sub(&b), a.mul(&b), a.div(&b)
ArrayElementwise(f) ==
    ArrayCall("elementwise",
              ArrayArgs(varData[1], varData[2], f, T_zero, NoAxis, FALSE, <<>>),
              compute_elementwise_with_other_array(varData[1], varData[2], f))

\* a.add_assign(&b), a.sub_assign(&b), a.mul_assign(&b), a.div_assign(&b)
ArrayElementwiseAssign(f) ==
    ArrayAssignCall("elementwise_assign",
                    ArrayArgs(varData[1], varData[2], f, T_zero, NoAxis, FALSE, <<>>),
                    assign_compute_elementwise_with_other_array(varData[1], varData[2], f))

\* a.add_scalar(s), a.sub_scalar(s), a.mul_scalar(s), a.div_scalar(s)
ArrayScalar(f, scalar) ==
    ArrayCall("scalar", ArrayArgs(varData[1], None, f, scalar, NoAxis, FALSE, <<>>),
              compute_elementwise_with_scalar(varData[1], scalar, f))

\* a.add_assign_scalar(s), a.sub_assign_scalar(s), a.mul_assign_scalar(s),
\* a.div_assign_scalar(s)
ArrayScalarAssign(f, scalar) ==
    ArrayAssignCall("scalar_assign", ArrayArgs(varData[1], None, f, scalar, NoAxis, FALSE, <<>>),
                    assign_compute_elementwise_with_scalar(varData[1], scalar, f))

\* a.map(|x| f(x, c))
ArrayMap(f, c) ==
    ArrayCall("map", ArrayArgs(varData[1], None, f, c, NoAxis, FALSE, <<>>),
              Array_map(varData[1], f, c))

\* a.map_assign(|x| f(x, c))
ArrayMapAssign(f, c) ==
    ArrayAssignCall("map_assign", ArrayArgs(varData[1], None, f, c, NoAxis, FALSE, <<>>),
                    map_assign(varData[1], f, c))

\* a.neg()
ArrayNeg ==
    ArrayCall("neg", ArrayArgs(varData[1], None, "", T_zero, NoAxis, FALSE, <<>>),
              Array_neg(varData[1]))

\* a.matmul(&b)
ArrayMatmul ==
    ArrayCall("matmul", ArrayArgs(varData[1], varData[2], "", T_zero, NoAxis, FALSE, <<>>),
              Array_matmul(varData[1], varData[2]))

\* a.transpose()
ArrayTranspose ==
    ArrayCall("transpose", ArrayArgs(varData[1], None, "", T_zero, NoAxis, FALSE, <<>>),
              Array_transpose(varData[1]))

\* a.transpose_assign()
ArrayTransposeAssign ==
    ArrayAssignCall("transpose_assign",
                    ArrayArgs(varData[1], None, "", T_zero, NoAxis, FALSE, <<>>),
                    transpose_assign(varData[1]))

\* reduce_sum(&a, axis, keep_dims), reduce_prod, reduce_max, reduce_min: the
\* call is recorded with the tag of its reducer.
ArrayReduce(reducer, axis, keep_dims) ==
    ArrayCall("reduce", ArrayArgs(varData[1], None, reducer, T_zero, axis, keep_dims, <<>>),
              CASE reducer = "add" -> reduce_sum(varData[1], axis, keep_dims)
                [] reducer = "mul" -> reduce_prod(varData[1], axis, keep_dims)
                [] reducer = "max" -> reduce_max(varData[1], axis, keep_dims)
                [] reducer = "min" -> reduce_min(varData[1], axis, keep_dims))

\* a[index] = new_value
ArrayIndexAssign(index, new_value) ==
    ArrayAssignCall("index_mut", ArrayArgs(varData[1], None, "", new_value, NoAxis, FALSE, index),
                    index_mut(varData[1], index, new_value))

\* let a = <the array the last call returned>; the call's frame is gone.
ArrayKeep ==
    /\ pc = "done"
    /\ ret.some
    /\ varData[1] \in ArrayInputs
    /\ ret.value # varData[1]
    /\ pc' = "idle"
    /\ varData' = [varData EXCEPT ![1] = ret.value]
    /\ ret' = NoRet
    /\ UNCHANGED <<iter, yielded, iter_trailing_dims, nodes, root, target, feed_dict, stack, accumm_grad_map,
                   compute_cache, compute_calls, accum_calls>>

NextArray ==
    \/ \E v \in ArrayScalars, sh \in NewShapes : ArrayNew(v, sh)
    \/ \E d \in NewBuffers, sh \in NewShapes : ArrayFromVec(d, sh)
    \/ \E f \in ArrayFns : ArrayElementwise(f)
    \/ \E f \in ArrayFns : ArrayElementwiseAssign(f)
    \/ \E f \in ArrayFns, c \in ArrayScalars : ArrayScalar(f, c)
    \/ \E f \in ArrayFns, c \in ArrayScalars : ArrayScalarAssign(f, c)
    \/ \E f \in ArrayFns, c \in ArrayScalars : ArrayMap(f, c)
    \/ \E f \in ArrayFns, c \in ArrayScalars : ArrayMapAssign(f, c)
    \/ ArrayNeg
    \/ ArrayMatmul
    \/ ArrayTranspose
    \/ ArrayTransposeAssign
    \/ \E reducer \in ReduceFns, axis \in {NoAxis} \cup (0..3), keep_dims \in BOOLEAN :
            ArrayReduce(reducer, axis, keep_dims)
    \/ \E index \in ArrayIndices, v \in ArrayScalars : ArrayIndexAssign(index, v)
    \/ ArrayKeep
    \/ Return

SpecArray == InitArray /\ [][NextArray]_vars

\* ------------------------------------------------------------------------
\* Specification SpecOps: the free functions of linalg::ops, applied to
\* a = varData[1] and b = varData[2]
\* ------------------------------------------------------------------------

multiply(a, b) == Array_mul(a, b)
multiply_scalar(a, b) == Array_mul_scalar(a, b)
add(a, b) == Array_add(a, b)
add_scalar(a, b) == Array_add_scalar(a, b)
sub(a, b) == Array_sub(a, b)
sub_scalar(a, b) == Array_sub_scalar(a, b)
div(a, b) == Array_add(a, b)
div_scalar(a, b) == Array_div_scalar(a, b)
matmul(a, b) == Array_matmul(a, b)

OpsFns == {"multiply", "add", "sub", "div", "matmul"}
OpsScalarFns == {"multiply_scalar", "add_scalar", "sub_scalar", "div_scalar"}

\* multiply(&a, &b), add(&a, &b), sub(&a, &b), div(&a, &b), matmul(&a, &b)
OpsCall(f) ==
    ArrayCall("ops", ArrayArgs(varData[1], varData[2], f, T_zero, NoAxis, FALSE, <<>>),
              CASE f = "multiply" -> multiply(varData[1], varData[2])
                [] f = "add" -> add(varData[1], varData[2])
                [] f = "sub" -> sub(varData[1], varData[2])
                [] f = "div" -> div(varData[1], varData[2])
                [] f = "matmul" -> matmul(varData[1], varData[2]))

\* multiply_scalar(&a, s), add_scalar(&a, s), sub_scalar(&a, s), div_scalar(&a, s)
OpsScalarCall(f, scalar) ==
    ArrayCall("ops", ArrayArgs(varData[1], None, f, scalar, NoAxis, FALSE, <<>>),
              CASE f = "multiply_scalar" -> multiply_scalar(varData[1], scalar)
                [] f = "add_scalar" -> add_scalar(varData[1], scalar)
                [] f = "sub_scalar" -> sub_scalar(varData[1], scalar)
                [] f = "div_scalar" -> div_scalar(varData[1], scalar))

NextOps ==
    \/ \E f \in OpsFns : OpsCall(f)
    \/ \E f \in OpsScalarFns, scalar \in ArrayScalars : OpsScalarCall(f, scalar)
    \/ Return

SpecOps == InitArray /\ [][NextOps]_vars

\* ------------------------------------------------------------------------
\* Specification SpecIter: a BroadcastIterator over a = varData[1] and
\* b = varData[2], stepped one next() at a time
\* ------------------------------------------------------------------------

MaxTrailingDims == 3

InitIter == InitArray

\* let mut it = BroadcastIterator::new(&a, &b, trailing_dims); a panic leaves
\* no iterator behind.
IterNew(trailing_dims) ==
    /\ CallIdle
    /\ iter = NoIterator
    /\ \E it \in {BroadcastIterator_new(varData[1].shape, varData[2].shape, trailing_dims)} :
        /\ iter' = it
        /\ ret' = Ret("BroadcastIterator::new", 0, 0,
                      ArrayArgs(varData[1], varData[2], "", T_zero, NoAxis, FALSE, <<>>),
                      IF it.panicked THEN PANIC ELSE None, FALSE)
    /\ yielded' = <<>>
    /\ iter_trailing_dims' = trailing_dims
    /\ pc' = "done"
    /\ UNCHANGED <<nodes, varData, root, target, feed_dict, stack, accumm_grad_map,
                   compute_cache, compute_calls, accum_calls>>

\* it.next(): Some((slice1, slice2)) is appended to the history, None is not;
\* a slice range that leaves its buffer panics.
IterNext ==
    /\ CallIdle
    /\ ~iter.panicked
    /\ \E nx \in {BroadcastIterator_next(iter, varData[1], varData[2])} :
        /\ iter' = nx.it
        /\ yielded' = IF nx.some THEN Append(yielded, <<nx.slice1.s, nx.slice2.s>>)
                      ELSE yielded
        /\ ret' = Ret("next", 0, 0,
                      ArrayArgs(varData[1], varData[2], "", T_zero, NoAxis, FALSE, <<>>),
                      IF nx.slice1.ok /\ nx.slice2.ok THEN None ELSE PANIC, nx.some)
    /\ pc' = "done"
    /\ UNCHANGED <<iter_trailing_dims, nodes, varData, root, target, feed_dict, stack,
                   accumm_grad_map, compute_cache, compute_calls, accum_calls>>

\* The iterator goes out of scope.
IterDrop ==
    /\ CallIdle
    /\ ~iter.panicked
    /\ iter' = NoIterator
    /\ yielded' = <<>>
    /\ iter_trailing_dims' = 0
    /\ UNCHANGED <<nodes, varData, pc, root, target, feed_dict, stack, accumm_grad_map,
                   compute_cache, compute_calls, accum_calls, ret>>

NextIter ==
    \/ \E trailing_dims \in 0..MaxTrailingDims : IterNew(trailing_dims)
    \/ IterNext
    \/ IterDrop
    \/ Return

SpecIter == InitIter /\ [][NextIter]_vars

\* ------------------------------------------------------------------------
\* Reference semantics the properties are stated against
\* ------------------------------------------------------------------------

\* The feed gives Placeholder p no array of its declared shape.
FeedFails(p, fd) ==
    \/ ~fd.present
    \/ ~\E i \in 1..Len(fd.entries) : fd.entries[i].id = nodes[p].id
    \/ \E i \in 1..Len(fd.entries) :
        /\ fd.entries[i].id = nodes[p].id
        /\ fd.entries[i].value.shape # nodes[p].shape

FedValue(p, fd) ==
    fd.entries[CHOOSE i \in 1..Len(fd.entries) : fd.entries[i].id = nodes[p].id].value

\* The value of node n under feed fd, from the arrays the Variables hold now
\* and with no cache.
RECURSIVE RefValue(_, _)
RefValue(n, fd) ==
    CASE nodes[n].kind = "Variable" -> varData[n]
      [] nodes[n].kind = "Placeholder" -> IF FeedFails(n, fd) THEN PANIC ELSE FedValue(n, fd)
      [] nodes[n].kind = "AddOp" ->
            Array_add(RefValue(nodes[n].inputs[1], fd), RefValue(nodes[n].inputs[2], fd))
      [] nodes[n].kind = "SubOp" ->
            Array_sub(RefValue(nodes[n].inputs[1], fd), RefValue(nodes[n].inputs[2], fd))
      [] nodes[n].kind = "MulOp" ->
            Array_mul(RefValue(nodes[n].inputs[1], fd), RefValue(nodes[n].inputs[2], fd))
      [] nodes[n].kind = "DivOp" ->
            Array_div(RefValue(nodes[n].inputs[1], fd), RefValue(nodes[n].inputs[2], fd))
      [] nodes[n].kind = "NegOp" -> Array_neg(RefValue(nodes[n].inputs[1], fd))
      [] nodes[n].kind = "AddScalarOp" ->
            Array_add_scalar(RefValue(nodes[n].inputs[1], fd), nodes[n].scalar)
      [] nodes[n].kind = "SubScalarOp" ->
            Array_sub_scalar(RefValue(nodes[n].inputs[1], fd), nodes[n].scalar)
      [] nodes[n].kind = "MulScalarOp" ->
            Array_mul_scalar(RefValue(nodes[n].inputs[1], fd), nodes[n].scalar)
      [] nodes[n].kind = "DivScalarOp" ->
            Array_div_scalar(RefValue(nodes[n].inputs[1], fd), nodes[n].scalar)

OnesLike(a) == [shape |-> a.shape, data |-> [i \in 1..Len(a.data) |-> T_one]]

\* Array a with every element multiplied by c.
Scaled(a, c) == [shape |-> a.shape, data |-> [i \in 1..Len(a.data) |-> T_mul(a.data[i], c)]]

\* The local derivative factor of node n for its input at position i, applied
\* to the upstream gradient g (the table of gradient rules).
LocalFactor(n, i, fd, g) ==
    CASE nodes[n].kind = "AddOp" -> g
      [] nodes[n].kind = "SubOp" -> IF i = 1 THEN g ELSE Scaled(g, Num(-1))
      [] nodes[n].kind = "MulOp" -> Array_mul(g, RefValue(nodes[n].inputs[3 - i], fd))
      [] nodes[n].kind = "NegOp" -> Scaled(g, Num(-1))

\* The sum of two optional contributions.
SumOfGrads(a, b) ==
    IF a = None THEN b ELSE IF b = None THEN a ELSE Array_add(a, b)

\* The multivariate chain rule: the sum, over every path from n to t, of
\* the upstream gradient g times the local factors along the path; None
\* when there is no path.
RECURSIVE PathSum(_, _, _, _)
PathSum(n, t, fd, g) ==
    IF n = t THEN g
    ELSE IF Len(nodes[n].inputs) = 0 THEN None
    ELSE IF Len(nodes[n].inputs) = 1
    THEN PathSum(nodes[n].inputs[1], t, fd, LocalFactor(n, 1, fd, g))
    ELSE SumOfGrads(PathSum(nodes[n].inputs[1], t, fd, LocalFactor(n, 1, fd, g)),
                    PathSum(nodes[n].inputs[2], t, fd, LocalFactor(n, 2, fd, g)))

ChainRule(n, t, fd) == PathSum(n, t, fd, OnesLike(RefValue(n, fd)))

GradDone == pc = "done" /\ ret.op = "grad"
EvalDone == pc = "done" /\ ret.op = "eval"

\* ------------------------------------------------------------------------
\* Properties
\* ------------------------------------------------------------------------

\* C1: a grad call that returns for a target reachable from the root returns
\* the chain-rule sum over every path from the root to the target.
C1_ChainRuleOverPaths ==
    (GradDone /\ ret.status = "ok" /\ Reaches(ret.node, ret.target))
        => /\ ret.some
           /\ ret.value = ChainRule(ret.node, ret.target, feed_dict)

\* a = Variable(1), s = a + a, e = s * a.
FanOutGraph ==
    /\ Len(nodes) = 3
    /\ nodes[1].kind = "Variable" /\ varData[1] = Array_new(T_one, <<1>>)
    /\ nodes[2].kind = "AddOp" /\ nodes[2].inputs = <<1, 1>>
    /\ nodes[3].kind = "MulOp" /\ nodes[3].inputs = <<2, 1>>

\* What a pair still on the stack will add to the gradient at a: e -> a
\* directly adds s = 2, each of the two s -> a edges adds a = 1, and e -> s
\* stands for both s -> a edges.
FanOutPending(pair) ==
    IF pair = <<1, WrapperKey>> THEN 2
    ELSE IF pair = <<2, WrapperKey>> THEN 2
    ELSE IF pair = <<1, 2>> THEN 1
    ELSE 0

RECURSIVE FanOutPendingSum(_)
FanOutPendingSum(stk) ==
    IF stk = <<>> THEN 0 ELSE FanOutPending(Head(stk)) + FanOutPendingSum(Tail(stk))

FanOutAccumulated ==
    IF accumm_grad_map[1] = None THEN T_zero ELSE accumm_grad_map[1].data[1]

\* C2 as stated: e.grad(a) is 3 at a = 1.
C2_FanOutIsThree ==
    (FanOutGraph /\ GradDone /\ ret.node = 3 /\ ret.target = 1)
        => ret.some /\ ret.value = Array_new(Num(3), <<1>>)

\* C2: with a = Variable(1) and e = (a+a)*a, e.grad(a) is the sum of the
\* contributions of the three paths from e to a, which is 4 at a = 1, and
\* throughout the call the gradient accumulated at a plus what the pairs
\* still on the stack will add is that sum: no contribution is overwritten.
C2_FanOutAccumulates ==
    /\ (FanOutGraph /\ GradDone /\ ret.node = 3 /\ ret.target = 1)
        => /\ ret.some
           /\ ret.value = Array_new(Num(4), <<1>>)
           /\ ret.value = ChainRule(3, 1, feed_dict)
    /\ (FanOutGraph /\ pc = "loop" /\ root = 3 /\ target = 1)
        => T_add(FanOutAccumulated, Num(FanOutPendingSum(stack))) = Num(4)

C2_Witness ==
    FanOutGraph /\ GradDone /\ ret.node = 3 /\ ret.target = 1 /\ ret.status = "ok"

\* C3: grad(N, N) on a node N whose value can be computed returns Some(ones)
\* of the shape of N's value, with no pair pushed on the stack, no
\* compute_accum_grad call and no accumulation entry.
C3_SelfGradient ==
    (GradDone /\ ret.node = ret.target)
        => IF IsPanic(RefValue(ret.node, feed_dict))
           THEN ret.status = "panic"
           ELSE /\ ret.status = "ok"
                /\ ret.some
                /\ ret.value.shape = RefValue(ret.node, feed_dict).shape
                /\ \A i \in 1..Len(ret.value.data) : ret.value.data[i] = T_one
                /\ Len(ret.value.data) = Product(ret.value.shape)
                /\ stack = <<>>
                /\ accum_calls = 0
                /\ accumm_grad_map = EmptyMap

\* A derived node with a broadcast value is differentiated by itself.
C3_Witness ==
    /\ GradDone /\ ret.node = ret.target /\ ret.status = "ok"
    /\ nodes[ret.node].inputs # <<>>
    /\ Len(ret.value.data) > 1

\* C4: a grad call that returns yields None when the target is not reachable
\* from the root and Some when it is.
C4_NoneIffUnreachable ==
    (GradDone /\ ret.status = "ok") => (ret.some <=> Reaches(ret.node, ret.target))

\* A derived root and a target it does not reach.
C4_Witness ==
    /\ GradDone /\ ret.status = "ok"
    /\ nodes[ret.node].inputs # <<>>
    /\ ~Reaches(ret.node, ret.target)
    /\ ~ret.some

\* old + d for arrays of rank 1, a length-1 array stretched to the other.
RefBroadcastAdd(a, d) ==
    [shape |-> <<Max(Len(a.data), Len(d.data))>>,
     data |-> [i \in 1..Max(Len(a.data), Len(d.data)) |->
                  T_add(a.data[IF Len(a.data) = 1 THEN 1 ELSE i],
                        d.data[IF Len(d.data) = 1 THEN 1 ELSE i])]]

\* C5: assign(v) leaves v stored and assign_add(d) leaves old + d; an eval
\* returns the value computed from the arrays the Variables hold at the call,
\* computing every node it reaches once, and every value a running eval or
\* grad call has cached is that node's value from those arrays.
C5_CurrentVariableData ==
    /\ (pc = "done" /\ ret.op = "assign" /\ ret.status = "ok")
        => varData[ret.node] = ret.arg
    /\ (pc = "done" /\ ret.op = "assign_add" /\ ret.status = "ok")
        => varData[ret.node] = RefBroadcastAdd(ret.value, ret.arg)
    /\ EvalDone
        => IF IsPanic(RefValue(ret.node, feed_dict))
           THEN ret.status = "panic"
           ELSE /\ ret.status = "ok"
                /\ ret.value = RefValue(ret.node, feed_dict)
                /\ \A m \in NodeIds :
                    compute_calls[m] = IF Reaches(ret.node, m) THEN 1 ELSE 0
    /\ \A m \in NodeIds :
        compute_cache[m] # None => compute_cache[m] = RefValue(m, feed_dict)

\* An eval of a derived tensor over a Variable whose stored array no longer
\* has the shape it was constructed with.
C5_Witness ==
    /\ EvalDone /\ ret.status = "ok"
    /\ nodes[ret.node].inputs # <<>>
    /\ \E v \in NodeIds :
        /\ Reaches(ret.node, v)
        /\ nodes[v].kind = "Variable"
        /\ varData[v].shape # nodes[v].shape

FeedFailsBelow(n, fd) ==
    \E p \in NodeIds : Reaches(n, p) /\ nodes[p].kind = "Placeholder" /\ FeedFails(p, fd)

\* C6: an eval or grad call over a graph with a Placeholder whose feed is
\* absent, lacks its id or has another shape fails with no result; an eval of
\* a Placeholder fed an array of its declared shape returns that array.
C6_PlaceholderFeed ==
    /\ (pc = "done" /\ ret.op \in {"eval", "grad"} /\ FeedFailsBelow(ret.node, feed_dict))
        => ret.status = "panic" /\ ~ret.some /\ ret.value = None
    /\ (pc = "done" /\ ret.op \in {"eval", "grad"} /\ ~FeedFailsBelow(ret.node, feed_dict))
        => ret.status = "ok"
    /\ (EvalDone /\ nodes[ret.node].kind = "Placeholder" /\ ~FeedFails(ret.node, feed_dict))
        => ret.some /\ ret.value = FedValue(ret.node, feed_dict)
    /\ pc = "loop" => ~FeedFailsBelow(root, feed_dict)

\* A derived tensor over a Placeholder is evaluated with a feed whose array
\* has another shape.
C6_Witness ==
    /\ EvalDone /\ ret.status = "panic"
    /\ nodes[ret.node].inputs # <<>>
    /\ feed_dict.present
    /\ \E p \in NodeIds :
        /\ Reaches(ret.node, p) /\ nodes[p].kind = "Placeholder"
        /\ \E i \in 1..Len(feed_dict.entries) :
            /\ feed_dict.entries[i].id = nodes[p].id
            /\ feed_dict.entries[i].value.shape # nodes[p].shape

C8_ShapeIsEvalShape ==
    (pc = "done" /\ ret.op = "shape" /\ nodes[ret.node].kind = "Variable")
        => ret.value.shape = get_shape(value(ret.node, NoFeed, NewContext).val)

\* compute_accum_grad of a node of this kind has returned for one of its inputs.
RuleDone(kind) ==
    /\ pc = "done" /\ ret.op = "accum"
    /\ nodes[ret.node].kind = kind
    /\ ret.target \in {nodes[ret.node].inputs[1], nodes[ret.node].inputs[2]}

\* C9: for z = x - y and upstream gradient g, x is routed g * 1 and y is
\* routed g * (-1).
C9_SubRule ==
    RuleDone("SubOp")
        => /\ ret.some
           /\ ret.value.shape = ret.arg.shape
           /\ \A i \in 1..Len(ret.arg.data) :
                ret.value.data[i] =
                    T_mul(ret.arg.data[i], IF ret.target = 1 THEN Num(1) ELSE Num(-1))

\* C10: for z = x / y and upstream gradient g, x is routed g * (1/y) and y
\* is routed g * (-x/y^2), elementwise.
C10_DivRule ==
    RuleDone("DivOp")
        => /\ ret.some
           /\ ret.value.shape = ret.arg.shape
           /\ \A i \in 1..Len(ret.arg.data) :
                ret.value.data[i] =
                    T_mul(ret.arg.data[i],
                          IF ret.target = 1
                          THEN T_div(Num(1), varData[2].data[i])
                          ELSE T_div(T_neg(varData[1].data[i]),
                                     T_mul(varData[2].data[i], varData[2].data[i])))

\* compute_accum_grad of a one-input node of this kind has returned for its
\* input.
ScalarRuleDone(kind) ==
    /\ pc = "done" /\ ret.op = "accum"
    /\ nodes[ret.node].kind = kind
    /\ ret.target = nodes[ret.node].inputs[1]

\* C11: for z = x + s and z = x - s and upstream gradient g, x is routed g
\* unchanged.
C11_ScalarAddSubRule ==
    (ScalarRuleDone("AddScalarOp") \/ ScalarRuleDone("SubScalarOp"))
        => /\ ret.some
           /\ ret.value = ret.arg

\* The position of the output of reduce(x, axis, ..) that the element at
\* position p of x is folded into (positions are 1-based, row-major).
ReducedInto(shape, axis, p) ==
    IF axis = NoAxis THEN 1
    ELSE LET inner == Product(Suffix(shape, axis + 1))
             outer == inner * shape[axis + 1]
         IN  ((p - 1) \div outer) * inner + ((p - 1) % inner) + 1

\* The number of elements folded into one output position.
ReducedCount(shape, axis) ==
    IF axis = NoAxis THEN Product(shape) ELSE shape[axis + 1]

\* C12: for z = reduce_mean(x, axis, keep_dims) and upstream gradient g, every
\* element of x is routed the element of g at the output position it was
\* averaged into, divided by the number of elements averaged there.
C12_ReduceMeanRule ==
    ScalarRuleDone("ReduceMeanOp")
        => /\ ret.some
           /\ ret.value.shape = varData[1].shape
           /\ \A p \in 1..Len(varData[1].data) :
                ret.value.data[p] =
                    T_div(ret.arg.data[ReducedInto(varData[1].shape, nodes[ret.node].axis, p)],
                          Num(ReducedCount(varData[1].shape, nodes[ret.node].axis)))

\* C13: for z = reduce_sum(x, axis, keep_dims) and upstream gradient g, the
\* contribution has x's shape and every element of x is routed the element of
\* g at the output position it was summed into.
C13_ReduceSumRule ==
    ScalarRuleDone("ReduceSumOp")
        => /\ ret.some
           /\ ret.value.shape = varData[1].shape
           /\ \A p \in 1..Len(varData[1].data) :
                ret.value.data[p] =
                    ret.arg.data[ReducedInto(varData[1].shape, nodes[ret.node].axis, p)]

\* Element (i, j) of the matrix product of the two-dimensional slices at
\* batch b of a (rows x inner) and of c (inner x cols); all indices 0-based.
RECURSIVE RefDot(_, _, _, _, _, _, _, _)
RefDot(a, c, b, i, j, inner, cols, k) ==
    IF k = inner THEN T_zero
    ELSE T_add(T_mul(a.data[b * (Len(a.data) \div Product(Prefix(a.shape, Len(a.shape) - 2)))
                            + i * inner + k + 1],
                     c.data[b * (Len(c.data) \div Product(Prefix(c.shape, Len(c.shape) - 2)))
                            + k * cols + j + 1]),
               RefDot(a, c, b, i, j, inner, cols, k + 1))

\* The matrix product over the last two dimensions of a and c, whose batch
\* dimensions are equal.
RefMatMul(a, c) ==
    LET rows == a.shape[Len(a.shape) - 1]
        inner == a.shape[Len(a.shape)]
        cols == c.shape[Len(c.shape)]
        sh == Prefix(a.shape, Len(a.shape) - 2) \o <<rows, cols>>
    IN  [shape |-> sh,
         data |-> [q \in 1..Product(sh) |->
                    RefDot(a, c, (q - 1) \div (rows * cols),
                           ((q - 1) % (rows * cols)) \div cols, (q - 1) % cols, inner, cols, 0)]]

\* a with the last two dimensions swapped: element (b, i, j) moves to (b, j, i).
RefTranspose(a) ==
    LET rows == a.shape[Len(a.shape) - 1]
        cols == a.shape[Len(a.shape)]
    IN  [shape |-> Prefix(a.shape, Len(a.shape) - 2) \o <<cols, rows>>,
         data |-> [q \in 1..Len(a.data) |->
                    a.data[((q - 1) \div (rows * cols)) * rows * cols
                           + ((q - 1) % rows) * cols
                           + (((q - 1) % (rows * cols)) \div rows) + 1]]]

\* The operands of test_matmul.
MatMulExample ==
    /\ varData[1] = Array_new(Num(1), <<2, 3, 2>>)
    /\ varData[2] = Array_new(Num(2), <<2, 2, 4>>)

\* C14: for z = x.matmul(y) with equal batch dimensions and upstream gradient
\* g, x is routed g . transpose(y) and y is routed transpose(x) . g; on
\* x = ones[2,3,2], y = 2*ones[2,2,4] and g = ones[2,3,4], z is 4*ones[2,3,4],
\* x is routed 8*ones[2,3,2] and y is routed 3*ones[2,2,4].
C14_MatMulRule ==
    RuleDone("MatMulOp")
        => /\ ret.some
           /\ ret.target = 1 => ret.value = RefMatMul(ret.arg, RefTranspose(varData[2]))
           /\ ret.target = 2 => ret.value = RefMatMul(RefTranspose(varData[1]), ret.arg)
           /\ (MatMulExample /\ ret.arg = Array_new(T_one, <<2, 3, 4>>))
                => /\ value(ret.node, NoFeed, NewContext).val = Array_new(Num(4), <<2, 3, 4>>)
                   /\ ret.target = 1 => ret.value = Array_new(Num(8), <<2, 3, 2>>)
                   /\ ret.target = 2 => ret.value = Array_new(Num(3), <<2, 2, 4>>)

\* The rule has been applied to y on the operands of test_matmul.
C14_Witness ==
    /\ RuleDone("MatMulOp")
    /\ MatMulExample
    /\ ret.target = 2
    /\ ret.arg = Array_new(T_one, <<2, 3, 4>>)
    /\ ret.value = Array_new(Num(3), <<2, 2, 4>>)

\* An operation of Array has returned (or panicked).
ArrayDone(op) == pc = "done" /\ ret.op = op

\* data.len() == product(shape), and every dimension is positive.
ValidArray(a) ==
    /\ Len(a.data) = Product(a.shape)
    /\ \A i \in 1..Len(a.shape) : a.shape[i] > 0

\* C15: every live array and every array an operation returns has
\* data.len() == product(shape) and positive dimensions; new and from_vec
\* reject a shape containing 0, and from_vec rejects a buffer whose length is
\* not the product of the shape.
C15_ArrayInvariant ==
    /\ \A i \in 1..Len(varData) : ValidArray(varData[i])
    /\ (pc = "done" /\ ret.some) => ValidArray(ret.value)
    /\ (ArrayDone("new") \/ ArrayDone("from_vec"))
        => ((\E i \in 1..Len(ret.arg.index) : ret.arg.index[i] = 0) => ret.status = "panic")
    /\ ArrayDone("from_vec")
        => (Len(ret.arg.self.data) # Product(ret.arg.index) => ret.status = "panic")

\* A matrix product has been returned on an array that an earlier operation
\* produced.
C15_Witness ==
    /\ ArrayDone("matmul")
    /\ ret.some
    /\ varData[1] \notin ArrayInputs

\* shape, left-padded with 1s to rank n.
PadLeft(shape, n) == [i \in 1..(n - Len(shape)) |-> 1] \o shape

\* Aligned at the trailing dimension, every pair of dimensions is equal or
\* holds a 1.
RefCompatible(shape1, shape2) ==
    LET n == Max(Len(shape1), Len(shape2)) IN
    \A i \in 1..n :
        \/ PadLeft(shape1, n)[i] = PadLeft(shape2, n)[i]
        \/ PadLeft(shape1, n)[i] = 1
        \/ PadLeft(shape2, n)[i] = 1

\* The per-dimension maximum of the aligned shapes.
RefBroadcastShape(shape1, shape2) ==
    LET n == Max(Len(shape1), Len(shape2)) IN
    [i \in 1..n |-> Max(PadLeft(shape1, n)[i], PadLeft(shape2, n)[i])]

\* The 0-based row-major position, in an operand of (padded) shape padded, of
\* the element that output position q (0-based) of shape result reads: the
\* index of q with 0 in every dimension where the operand has length 1.
RECURSIVE RefOperandPos(_, _, _, _)
RefOperandPos(padded, result, q, d) ==
    IF d > Len(result) THEN 0
    ELSE (IF padded[d] = 1 THEN 0
          ELSE ((q \div Product(Suffix(result, d))) % result[d]) * Product(Suffix(padded, d)))
         + RefOperandPos(padded, result, q, d + 1)

\* f applied elementwise to a and b under broadcasting.
RefElementwise(a, b, f) ==
    LET result == RefBroadcastShape(a.shape, b.shape) IN
    [shape |-> result,
     data |-> [q \in 1..Product(result) |->
                ApplyFn(f,
                    a.data[RefOperandPos(PadLeft(a.shape, Len(result)), result, q - 1, 1) + 1],
                    b.data[RefOperandPos(PadLeft(b.shape, Len(result)), result, q - 1, 1) + 1])]]

\* C16: on broadcast-compatible shapes add, sub, mul and div return the array
\* whose shape is the per-dimension maximum of the aligned shapes and whose
\* element at every index is f of the operands' elements at the
\* broadcast-mapped indices.
C16_BroadcastElementwise ==
    (ArrayDone("elementwise") /\ RefCompatible(ret.arg.self.shape, ret.arg.other.shape))
        => /\ ret.some
           /\ ret.value = RefElementwise(ret.arg.self, ret.arg.other, ret.arg.f)

\* A subtraction has stretched both operands: [2, 1] against [1, 2].
C16_Witness ==
    /\ ArrayDone("elementwise")
    /\ ret.arg.f = "sub"
    /\ ret.arg.self.shape = <<2, 1>>
    /\ ret.arg.other.shape = <<1, 2>>
    /\ ret.some
    /\ ret.value.shape = <<2, 2>>

\* The shapes cannot be multiplied: a rank below 2, inner dimensions that
\* differ, or batch dimensions that are not broadcast-compatible.
MatmulShapeError(shape1, shape2) ==
    \/ Len(shape1) < 2
    \/ Len(shape2) < 2
    \/ shape1[Len(shape1)] # shape2[Len(shape2) - 1]
    \/ ~RefCompatible(Prefix(shape1, Len(shape1) - 2), Prefix(shape2, Len(shape2) - 2))

\* C17: an elementwise operation or its *_assign variant on shapes that are
\* not broadcast-compatible, a matmul on shapes that cannot be multiplied, a
\* transpose of a rank below 2 and a reduce over an axis >= rank all panic:
\* none of them returns a value.
C17_ShapeErrorsRejected ==
    /\ ((ArrayDone("elementwise") \/ ArrayDone("elementwise_assign"))
            /\ ~RefCompatible(ret.arg.self.shape, ret.arg.other.shape))
        => (ret.status = "panic" /\ ~ret.some)
    /\ (ArrayDone("matmul") /\ MatmulShapeError(ret.arg.self.shape, ret.arg.other.shape))
        => (ret.status = "panic" /\ ~ret.some)
    /\ ((ArrayDone("transpose") \/ ArrayDone("transpose_assign"))
            /\ Len(ret.arg.self.shape) < 2)
        => (ret.status = "panic" /\ ~ret.some)
    /\ (ArrayDone("reduce") /\ ret.arg.axis # NoAxis /\ ret.arg.axis >= Len(ret.arg.self.shape))
        => (ret.status = "panic" /\ ~ret.some)

\* An add_assign of [2, 3] and [3, 2] has panicked.
C17_Witness ==
    /\ ArrayDone("elementwise_assign")
    /\ ret.arg.self.shape = <<2, 3>>
    /\ ret.arg.other.shape = <<3, 2>>
    /\ ret.status = "panic"

\* The batch dimensions of a shape of rank >= 2.
BatchOf(shape) == Prefix(shape, Len(shape) - 2)

\* Element (i, j) of the product of the rows x inner matrix that starts at
\* offset off1 of data1 and the inner x cols matrix that starts at offset off2
\* of data2; offsets and indices 0-based.
RECURSIVE RefSliceDot(_, _, _, _, _, _, _, _, _)
RefSliceDot(data1, off1, data2, off2, i, j, inner, cols, k) ==
    IF k = inner THEN T_zero
    ELSE T_add(T_mul(data1[off1 + i * inner + k + 1], data2[off2 + k * cols + j + 1]),
               RefSliceDot(data1, off1, data2, off2, i, j, inner, cols, k + 1))

\* The batched matrix product: the slice at batch index t of the result is the
\* product of the slices of a and c at t with 0 in every batch dimension where
\* the operand (left-padded with 1s) has length 1.
RefBatchedMatMul(a, c) ==
    LET rows == a.shape[Len(a.shape) - 1]
        inner == a.shape[Len(a.shape)]
        cols == c.shape[Len(c.shape)]
        batch == RefBroadcastShape(BatchOf(a.shape), BatchOf(c.shape))
        sh == batch \o <<rows, cols>>
    IN  [shape |-> sh,
         data |-> [q \in 1..Product(sh) |->
                    RefSliceDot(
                        a.data,
                        RefOperandPos(PadLeft(BatchOf(a.shape), Len(batch)), batch,
                                      (q - 1) \div (rows * cols), 1) * rows * inner,
                        c.data,
                        RefOperandPos(PadLeft(BatchOf(c.shape), Len(batch)), batch,
                                      (q - 1) \div (rows * cols), 1) * inner * cols,
                        ((q - 1) % (rows * cols)) \div cols, (q - 1) % cols, inner, cols, 0)]]

\* C18: for a of shape (.., r1, c1) and b of shape (.., r2, c2) with c1 = r2
\* and broadcast-compatible batch dimensions, b of lower rank included, matmul
\* returns the array of shape broadcast(batch(a), batch(b)) ++ [r1, c2] whose
\* slice at every batch index is the matrix product of the slices of a and b
\* at the broadcast-mapped batch indices.
C18_BatchedMatMul ==
    (ArrayDone("matmul") /\ ~MatmulShapeError(ret.arg.self.shape, ret.arg.other.shape))
        => /\ ret.some
           /\ ret.value.shape
                = RefBroadcastShape(BatchOf(ret.arg.self.shape), BatchOf(ret.arg.other.shape))
                  \o <<ret.arg.self.shape[Len(ret.arg.self.shape) - 1],
                       ret.arg.other.shape[Len(ret.arg.other.shape)]>>
           /\ ret.value = RefBatchedMatMul(ret.arg.self, ret.arg.other)

\* A [3, 2, 1] array times a [1, 2] array of lower rank has returned its
\* [3, 2, 2] product.
C18_Witness ==
    /\ ArrayDone("matmul")
    /\ ret.arg.self.shape = <<3, 2, 1>>
    /\ ret.arg.other.shape = <<1, 2>>
    /\ ret.some
    /\ ret.value.shape = <<3, 2, 2>>
    /\ ret.value = RefBatchedMatMul(ret.arg.self, ret.arg.other)

\* C19: for two-dimensional a (m x k) and b (k x n),
\* transpose(matmul(a, b)) = matmul(transpose(b), transpose(a)); and transpose
\* swaps the last two dimensions, moving element (i, j) to (j, i).
C19_TransposeOfProduct ==
    /\ (ArrayDone("matmul") /\ Len(ret.arg.self.shape) = 2 /\ Len(ret.arg.other.shape) = 2
            /\ ret.arg.self.shape[2] = ret.arg.other.shape[1])
        => /\ ret.some
           /\ Array_transpose(ret.value)
                = Array_matmul(Array_transpose(ret.arg.other), Array_transpose(ret.arg.self))
    /\ (ArrayDone("transpose") /\ Len(ret.arg.self.shape) >= 2)
        => /\ ret.some
           /\ ret.value = RefTranspose(ret.arg.self)

\* The product of a [2, 3] and a [3, 2] array has returned, and its transpose
\* is the product of the transposes in the opposite order.
C19_Witness ==
    /\ ArrayDone("matmul")
    /\ ret.arg.self.shape = <<2, 3>>
    /\ ret.arg.other.shape = <<3, 2>>
    /\ ret.some
    /\ Array_transpose(ret.value).shape = <<2, 2>>
    /\ Array_transpose(ret.value) # ret.value
    /\ Array_transpose(ret.value)
        = Array_matmul(Array_transpose(ret.arg.other), Array_transpose(ret.arg.self))

\* The shape a reduce over a given axis returns: dimension axis (0-based) set
\* to 1 when keep_dims holds, removed otherwise.
RefAxisReducedShape(shape, axis, keep_dims) ==
    IF keep_dims
    THEN [i \in 1..Len(shape) |-> IF i = axis + 1 THEN 1 ELSE shape[i]]
    ELSE [i \in 1..(Len(shape) - 1) |-> IF i <= axis THEN shape[i] ELSE shape[i + 1]]

\* C20 (amended): with axis None reduce returns a one-element array, of shape
\* [1] when keep_dims is false and of as many 1s as the input has dimensions
\* when keep_dims is true; with a given axis k < rank it returns the input
\* shape with dimension k set to 1 when keep_dims is true and with dimension k
\* removed when keep_dims is false.
C20_ReduceShape ==
    /\ (ArrayDone("reduce") /\ ret.arg.axis = NoAxis)
        => /\ ret.some
           /\ Len(ret.value.data) = 1
           /\ ret.value.shape = IF ret.arg.keep_dims
                                 THEN [i \in 1..Len(ret.arg.self.shape) |-> 1]
                                 ELSE <<1>>
    /\ (ArrayDone("reduce") /\ ret.arg.axis # NoAxis
            /\ ret.arg.axis < Len(ret.arg.self.shape))
        => /\ ret.some
           /\ ret.value.shape
                = RefAxisReducedShape(ret.arg.self.shape, ret.arg.axis, ret.arg.keep_dims)

\* The sum over all elements of a [2, 3] array with keep_dims has returned a
\* one-element array of shape [1, 1].
C20_Witness ==
    /\ ArrayDone("reduce")
    /\ ret.arg.self.shape = <<2, 3>>
    /\ ret.arg.axis = NoAxis
    /\ ret.arg.keep_dims
    /\ ret.some
    /\ ret.value.shape = <<1, 1>>
    /\ Len(ret.value.data) = 1

\* C20 as stated: with axis None and either value of keep_dims reduce returns
\* a one-element array of shape [1]; with a given axis k < rank it returns the
\* input shape with dimension k set to 1 or removed.
C20_ReduceShapeAsStated ==
    /\ (ArrayDone("reduce") /\ ret.arg.axis = NoAxis)
        => /\ ret.some
           /\ Len(ret.value.data) = 1
           /\ ret.value.shape = <<1>>
    /\ (ArrayDone("reduce") /\ ret.arg.axis # NoAxis
            /\ ret.arg.axis < Len(ret.arg.self.shape))
        => /\ ret.some
           /\ ret.value.shape
                = RefAxisReducedShape(ret.arg.self.shape, ret.arg.axis, ret.arg.keep_dims)

\* The elements of x folded into output position q (1-based) of
\* reduce(x, axis, ..), in row-major order: all of them for axis None, the
\* elements x[outer, 0..dim, inner] for a given axis.
RECURSIVE RefReducedElems(_, _, _, _)
RefReducedElems(x, axis, q, p) ==
    IF p > Len(x.data) THEN <<>>
    ELSE (IF ReducedInto(x.shape, axis, p) = q THEN <<x.data[p]>> ELSE <<>>)
         \o RefReducedElems(x, axis, q, p + 1)

\* The reducer combined over a non-empty sequence of elements.
RefCombine(elems, reducer) == fold(Tail(elems), Head(elems), reducer)

AllFinite(a) == \A i \in 1..Len(a.data) : IsFinite(a.data[i])

\* C21: for each reducer (sum, prod, min, max), every array of finite elements
\* and every axis (None or k < rank), each output element of reduce equals the
\* reducer combined over exactly the input elements that map to it.
C21_ReduceValues ==
    (ArrayDone("reduce") /\ AllFinite(ret.arg.self)
        /\ (ret.arg.axis = NoAxis \/ ret.arg.axis < Len(ret.arg.self.shape)))
        => /\ ret.some
           /\ \A q \in 1..Len(ret.value.data) :
                ret.value.data[q]
                    = RefCombine(RefReducedElems(ret.arg.self, ret.arg.axis, q, 1), ret.arg.f)

\* The inputs of n in the order they are pushed: reversed for the nodes of rev.
InputsInOrder(n, rev) ==
    IF n \in rev
    THEN [i \in 1..Len(get_inputs(n)) |-> get_inputs(n)[Len(get_inputs(n)) + 1 - i]]
    ELSE get_inputs(n)

\* The while-let loop of grad run to the end from stack stk, with the siblings
\* of every node of rev pushed in the opposite order: the array removed from
\* the map, None when the target has no entry, PANIC when the call panics.
RECURSIVE grad_loop_in_order(_, _, _, _, _, _, _)
grad_loop_in_order(self, node, fd, rev, stk, map, ctx) ==
    IF stk = <<>> THEN map[node]
    ELSE Bind(stk[Len(stk)][1], LAMBDA current_node :
         Bind(stk[Len(stk)][2], LAMBDA current_parrent :
         IF map[current_parrent] = None THEN PANIC
         ELSE Bind(IF current_parrent = WrapperKey
                   THEN WrapperOp_compute_accum_grad(self, fd, ctx, current_node,
                                                     map[current_parrent])
                   ELSE compute_accum_grad(current_parrent, fd, ctx, current_node,
                                           map[current_parrent]), LAMBDA parrent_grad :
              IF IsPanic(parrent_grad.val) THEN PANIC
              ELSE Bind(IF parrent_grad.some
                        THEN accumulate(map, current_node, parrent_grad.val)
                        ELSE map, LAMBDA new_map :
                   IF IsPanic(new_map[current_node]) THEN PANIC
                   ELSE grad_loop_in_order(self, node, fd, rev,
                            IF current_node # node /\ get_inputs(current_node) # <<>>
                            THEN push_children(SubSeq(stk, 1, Len(stk) - 1),
                                               InputsInOrder(current_node, rev), current_node)
                            ELSE SubSeq(stk, 1, Len(stk) - 1),
                            new_map, parrent_grad.ctx)))))

\* self.grad(node, fd) with the siblings of every node of rev pushed in the
\* opposite order.
grad_in_order(self, node, fd, rev) ==
    Bind(compute(self, fd, NewContext), LAMBDA r :
    IF IsPanic(r.val) THEN PANIC
    ELSE IF self = node THEN accumm_grad_self(r.val)
    ELSE grad_loop_in_order(self, node, fd, rev,
             push_children(<<>>, InputsInOrder(self, rev), WrapperKey),
             [EmptyMap EXCEPT ![WrapperKey] = accumm_grad_self(r.val)], r.ctx))

\* What a finished grad call handed back: the array, None, or PANIC.
GradOutcome == IF ret.status = "panic" THEN PANIC ELSE ret.value

\* C22: for a fixed graph, fixed variable values and a fixed target, grad
\* returns the same array whatever the order in which the inputs of each node
\* are pushed on the work stack: reversing the sibling order at any set of
\* nodes yields what the call returned.
C22_SiblingOrderIrrelevant ==
    GradDone =>
        \A rev \in SUBSET {n \in NodeIds : Len(get_inputs(n)) > 1} :
            grad_in_order(ret.node, ret.target, feed_dict, rev) = GradOutcome

\* C23: within one eval call and within one grad call compute is invoked at
\* most once for each node, however many parents reference the node and
\* however often compute and compute_accum_grad request its value; a value in
\* the call's cache is the one that single invocation produced.
C23_ComputeAtMostOnce ==
    /\ \A m \in NodeIds : compute_calls[m] <= 1
    /\ \A m \in NodeIds : compute_cache[m] # None => compute_calls[m] = 1

\* A grad call has returned in which a node that is an input of its parents
\* twice had its value requested by compute and by compute_accum_grad, and
\* was computed once.
C23_Witness ==
    /\ GradDone
    /\ ret.some
    /\ accum_calls >= 2
    /\ \E m \in NodeIds :
        /\ nodes[ret.node].kind = "MulOp"
        /\ nodes[ret.node].inputs = <<m, m>>
        /\ nodes[m].kind = "NegOp"
        /\ compute_calls[m] = 1
        /\ compute_cache[m] # None

\* C24: whenever grad is about to pop a pair (child, parent) and read the
\* accumulated gradient of parent, that entry is final: it already holds the
\* contributions of every path from the root to parent, so that nothing is
\* added to it later in the call.
C24_ParentGradFinal ==
    (pc = "loop" /\ stack # <<>> /\ stack[Len(stack)][2] # WrapperKey)
        => accumm_grad_map[stack[Len(stack)][2]]
            = ChainRule(root, stack[Len(stack)][2], feed_dict)

\* C25: the work-stack loop of grad terminates: from every state inside the
\* loop the stack eventually becomes empty and the call returns
\* accumulated_grad_at[target] if present, else None; and the accumulation map
\* holds an entry for the parent of every pair on the stack, so the lookup of
\* the parent's accumulated gradient never fails.
C25_GradTerminates ==
    /\ [](pc = "loop"
            => \A i \in 1..Len(stack) : accumm_grad_map[stack[i][2]] # None)
    /\ []((GradDone /\ ret.node # ret.target /\ ret.status = "ok")
            => /\ stack = <<>>
               /\ ret.some <=> accumm_grad_map[ret.target] # None
               /\ ret.value = accumm_grad_map[ret.target])
    /\ (pc = "loop") ~> (GradDone /\ ret.status = "ok" /\ stack = <<>>)

\* A grad call has returned the target's entry after at least three
\* iterations of the loop.
C25_Witness ==
    /\ GradDone
    /\ ret.node # ret.target
    /\ accum_calls >= 3
    /\ stack = <<>>
    /\ ret.some
    /\ ret.value = accumm_grad_map[ret.target]

\* The pairs pushed when node c is expanded: one per input, in input order.
PairsOf(c) == [i \in 1..Len(get_inputs(c)) |-> <<get_inputs(c)[i], c>>]

\* C26: during grad the target's subtree is never expanded: no pair with the
\* target as the parent is ever on the work stack, so compute_accum_grad is
\* never invoked on the target; every other popped node gets one pair pushed
\* per input, and popping the target pushes nothing.
C26_TargetNotExpanded ==
    /\ [](pc = "loop" => \A i \in 1..Len(stack) : stack[i][2] # target)
    /\ [][(pc = "loop" /\ stack # <<>> /\ pc' = "loop")
            => stack' = SubSeq(stack, 1, Len(stack) - 1)
                        \o (IF stack[Len(stack)][1] # target
                            THEN PairsOf(stack[Len(stack)][1])
                            ELSE <<>>)]_vars

\* A grad call with respect to a node that has inputs has returned: the
\* target got its gradient and its inputs got none.
C26_Witness ==
    /\ GradDone
    /\ ret.some
    /\ ret.node # ret.target
    /\ get_inputs(ret.target) # <<>>
    /\ accumm_grad_map[ret.target] # None
    /\ \A i \in 1..Len(get_inputs(ret.target)) :
        accumm_grad_map[get_inputs(ret.target)[i]] = None

\* C27: whenever grad(root, target) returns Some(array), the array has the
\* shape of the target's evaluated value, also when the target was broadcast
\* against a larger operand of an elementwise operator or was a lower-rank or
\* size-1-batch operand of matmul.
C27_GradHasTargetShape ==
    (GradDone /\ ret.some)
        => get_shape(ret.value)
            = get_shape(value(ret.target, feed_dict, NewContext).val)

\* The shape without its last t dimensions.
RefBatchShape(shape, t) == SubSeq(shape, 1, Len(shape) - t)

\* R: the broadcast of the two shapes with their last t dimensions removed.
RefIterShape ==
    RefBroadcastShape(RefBatchShape(varData[1].shape, iter_trailing_dims),
                      RefBatchShape(varData[2].shape, iter_trailing_dims))

\* The slice of array that belongs to the k-th index (1-based, row-major) over
\* R: product(last t dims) contiguous elements at that index, with 0 in every
\* dimension where array has length 1.
RefIterSlice(array, k) ==
    LET t == iter_trailing_dims
        n == Product(SubSeq(array.shape, Len(array.shape) - t + 1, Len(array.shape)))
        padded == PadLeft(RefBatchShape(array.shape, t), Len(RefIterShape))
        pos == RefOperandPos(padded, RefIterShape, k - 1, 1)
    IN  SubSeq(array.data, pos * n + 1, pos * n + n)

\* C28: a BroadcastIterator over a, b with trailing_dims t yields exactly
\* product(R) pairs and None on every later call, R being the broadcast of
\* the shapes without their last t dimensions; the k-th pair holds a's and b's
\* contiguous slices of length product(last t dims) at the k-th row-major
\* index over R, with 0 in every dimension where that array has length 1; an
\* empty R yields one pair with both whole buffers; construction panics when
\* t exceeds the larger rank.
C28_BroadcastIterator ==
    /\ [](~iter.panicked =>
            /\ Len(yielded) <= Product(RefIterShape)
            /\ \A k \in 1..Len(yielded) :
                    yielded[k] = <<RefIterSlice(varData[1], k), RefIterSlice(varData[2], k)>>
            /\ iter.done <=> Len(yielded) = Product(RefIterShape)
            /\ (RefIterShape = <<>> /\ yielded # <<>>)
                    => yielded = <<(<<varData[1].data, varData[2].data>>)>>)
    /\ []((pc = "done" /\ ret.op = "next") => ret.status = "ok")
    /\ []((pc = "done" /\ ret.op = "BroadcastIterator::new"
            /\ iter_trailing_dims > Max(Len(varData[1].shape), Len(varData[2].shape)))
            => (ret.status = "panic" /\ iter.panicked))
    /\ [][(pc = "idle" /\ pc' = "done" /\ ret'.op = "next")
            => IF Len(yielded) < Product(RefIterShape)
               THEN ret'.some /\ Len(yielded') = Len(yielded) + 1
               ELSE ~ret'.some /\ yielded' = yielded /\ iter' = iter]_vars

\* An iterator with trailing dimensions, over a result shape of two
\* dimensions in which a's dimension of length 1 is stretched, has yielded
\* several pairs and has just returned None.
C28_Witness ==
    /\ pc = "done"
    /\ ret.op = "next"
    /\ ~ret.some
    /\ ~iter.panicked
    /\ iter_trailing_dims >= 1
    /\ Len(RefIterShape) = 2
    /\ Len(yielded) >= 4
    /\ \E d \in 1..Len(RefIterShape) :
          /\ RefIterShape[d] > 1
          /\ PadLeft(RefBatchShape(varData[1].shape, iter_trailing_dims), Len(RefIterShape))[d] = 1

\* What a finished eval call handed back: the array, or PANIC.
EvalOutcome == IF ret.status = "panic" THEN PANIC ELSE ret.value

\* C29: eval and grad are read-only: no step of an eval or grad call changes
\* the graph, a Variable's stored array or the call's feed mapping, so the
\* same call made again right after the first has returned hands back an
\* equal array (or panics again).
C29_CallsAreReadOnly ==
    /\ [][(pc = "loop" \/ pc' = "loop" \/ ret'.op \in {"eval", "grad"})
            => /\ nodes' = nodes
               /\ varData' = varData
               /\ pc = "loop" => feed_dict' = feed_dict]_vars
    /\ [](EvalDone =>
            Bind(value(ret.node, feed_dict, NewContext).val, LAMBDA again :
                 IF IsPanic(again) THEN ret.status = "panic" ELSE again = EvalOutcome))
    /\ [](GradDone =>
            Bind(grad_in_order(ret.node, ret.target, feed_dict, {}), LAMBDA again :
                 IF IsPanic(again) THEN ret.status = "panic" ELSE again = GradOutcome))

\* A grad call that went through the loop has returned a gradient on a graph
\* whose root reads a Variable through an operation, and an eval call has
\* returned the value of such a node.
C29_Witness ==
    /\ pc = "done"
    /\ ret.op \in {"eval", "grad"}
    /\ ret.some
    /\ nodes[ret.node].kind \notin {"Variable", "Placeholder"}
    /\ \E m \in NodeIds : nodes[m].kind = "Variable" /\ compute_calls[m] = 1
    /\ ret.op = "grad" => accum_calls >= 2

\* What the Array method of the same name returns for the arguments of the
\* finished linalg::ops call.
RefMethod ==
    CASE ret.arg.f = "multiply" -> Array_mul(ret.arg.self, ret.arg.other)
      [] ret.arg.f = "add" -> Array_add(ret.arg.self, ret.arg.other)
      [] ret.arg.f = "sub" -> Array_sub(ret.arg.self, ret.arg.other)
      [] ret.arg.f = "div" -> Array_div(ret.arg.self, ret.arg.other)
      [] ret.arg.f = "matmul" -> Array_matmul(ret.arg.self, ret.arg.other)
      [] ret.arg.f = "multiply_scalar" -> Array_mul_scalar(ret.arg.self, ret.arg.scalar)
      [] ret.arg.f = "add_scalar" -> Array_add_scalar(ret.arg.self, ret.arg.scalar)
      [] ret.arg.f = "sub_scalar" -> Array_sub_scalar(ret.arg.self, ret.arg.scalar)
      [] ret.arg.f = "div_scalar" -> Array_div_scalar(ret.arg.self, ret.arg.scalar)

\* C30: each free function of linalg::ops returns the array the Array method
\* of the same name returns (div the elementwise quotient), and panics when
\* the method panics.
C30_OpsEqualMethods ==
    ArrayDone("ops") =>
        IF IsPanic(RefMethod) THEN ret.status = "panic"
        ELSE ret.some /\ ret.value = RefMethod

====
